---------------------------- MODULE Spec2Model ----------------------------
(***************************************************************************)
(* Focal-length statistics of the photo-info application (src/src/App.tsx, *)
(* component App, and src/src/cameraData.ts).                              *)
(*                                                                         *)
(* Texts (the range specification, a crop-factor input) are sequences of   *)
(* one-character strings, so that split, trim, Number and parseFloat are   *)
(* computed character by character as JavaScript computes them.  Labels    *)
(* are built by string concatenation, as the template literals build them. *)
(*                                                                         *)
(* A JavaScript number is a decimal [t |-> "num", m, e] standing for       *)
(* m / 10^e, normalised (no trailing zero in the fraction), or NaN; the    *)
(* value undefined has its own tag.  Arithmetic is exact decimal           *)
(* arithmetic: the binary rounding of IEEE doubles is not modelled, nor    *)
(* are Infinity, exponent or radix-prefixed literals, which the modelled   *)
(* input alphabet does not contain.  Camera model names are ordinary       *)
(* strings, never names of Object.prototype properties.                    *)
(***************************************************************************)
EXTENDS Integers, Sequences, FiniteSets, TLC

VARIABLES
    cropFactors,          \* App.tsx:879   model name -> multiplier
    localPhotos,          \* App.tsx:853   the loaded photos
    equivalents,          \* per photo, the value of getEquivalentFocalLength in the
                          \* current pass; <<>> before the pass has run
    focalLengthRanges,    \* App.tsx:865   the range text
    parsedRanges,         \* App.tsx:1222  the rules parsed from the text, once parsed
    groupBy,              \* App.tsx:863
    focalLengthMode,      \* App.tsx:864
    selectedModels,       \* App.tsx:867   (an array used as a set)
    selectedLenses,       \* App.tsx:868   (an array used as a set)
    selectedFolderPaths,  \* App.tsx:871   (an array used as a set)
    chartData,            \* App.tsx:873
    topFocalLengthLabels, \* App.tsx:877
    allFolderPaths,       \* App.tsx:870   (an array used as a set)
    debouncedFocalLengthRanges, \* App.tsx:881
    timerPending,         \* App.tsx:912   the debounce timer is set and has not fired
    invocation            \* src/api/synology.ts:37  one run of the handler

\* the inputs of chart generation other than photos, table and text
settings == <<groupBy, focalLengthMode, selectedModels, selectedLenses, selectedFolderPaths>>

\* what chart generation sets
chart == <<chartData, topFocalLengthLabels>>

\* the debounce of the range text
debounce == <<debouncedFocalLengthRanges, timerPending>>

vars == <<cropFactors, localPhotos, equivalents, focalLengthRanges, parsedRanges,
          settings, chart, allFolderPaths, debounce, invocation>>

-----------------------------------------------------------------------------
(* JavaScript values *)

\* the value undefined where a number is expected (ExifData's optional fields)
Undefined == [t |-> "undefined", m |-> 0, e |-> 0]

NaN == [t |-> "NaN", m |-> 0, e |-> 0]

\* the value undefined where a string is expected (ExifData.Model?: string)
NoString == "<undefined>"

RECURSIVE Pow10(_)
Pow10(e) == IF e = 0 THEN 1 ELSE 10 * Pow10(e - 1)

\* the decimal m / 10^e without trailing zeros in its fraction
RECURSIVE Dec(_, _)
Dec(m, e) ==
    IF e > 0 /\ m % 10 = 0 THEN Dec(m \div 10, e - 1)
    ELSE [t |-> "num", m |-> m, e |-> e]

Int2Num(n) == Dec(n, 0)

\* typeof v === 'number'
IsNumber(v) == v.t \in {"num", "NaN"}

\* isNaN(v): Number(undefined) is NaN
isNaN(v) == v.t # "num"

\* a <= b on numbers; every comparison with NaN is false
NumLE(a, b) ==
    /\ a.t = "num" /\ b.t = "num"
    /\ a.m * Pow10(b.e) <= b.m * Pow10(a.e)

\* a > 0
NumGT0(a) == a.t = "num" /\ a.m > 0

\* a * b
NumMul(a, b) ==
    IF a.t = "num" /\ b.t = "num" THEN Dec(a.m * b.m, a.e + b.e) ELSE NaN

\* Math.round: floor(x + 0.5), ties go towards +Infinity
MathRound(a) ==
    IF a.t = "num"
    THEN Int2Num((2 * a.m + Pow10(a.e)) \div (2 * Pow10(a.e)))
    ELSE NaN

\* a === b on numbers (NaN equals nothing)
NumEq(a, b) == a.t = "num" /\ b.t = "num" /\ a = b

\* JavaScript truthiness of a number or undefined
Truthy(v) == v.t = "num" /\ v.m # 0

-----------------------------------------------------------------------------
(* JavaScript strings, as sequences of characters *)

DigitChars == <<"0", "1", "2", "3", "4", "5", "6", "7", "8", "9">>

IsDigit(c) == \E i \in 1..10 : DigitChars[i] = c

DigitVal(c) == (CHOOSE i \in 1..10 : DigitChars[i] = c) - 1

IsSpace(c) == c \in {" ", "\t", "\n"}

UpperChars == <<"A", "B", "C", "D", "E", "F", "G", "H", "I", "J", "K", "L", "M",
                "N", "O", "P", "Q", "R", "S", "T", "U", "V", "W", "X", "Y", "Z">>

LowerChars == <<"a", "b", "c", "d", "e", "f", "g", "h", "i", "j", "k", "l", "m",
                "n", "o", "p", "q", "r", "s", "t", "u", "v", "w", "x", "y", "z">>

\* String.prototype.toLowerCase
toLowerCase(s) ==
    [i \in 1..Len(s) |->
        IF \E k \in 1..26 : UpperChars[k] = s[i]
        THEN LowerChars[CHOOSE k \in 1..26 : UpperChars[k] = s[i]]
        ELSE s[i]]

RECURSIVE trimStart(_)
trimStart(s) ==
    IF s # <<>> /\ IsSpace(Head(s)) THEN trimStart(Tail(s)) ELSE s

RECURSIVE trimEnd(_)
trimEnd(s) ==
    IF s # <<>> /\ IsSpace(s[Len(s)]) THEN trimEnd(SubSeq(s, 1, Len(s) - 1)) ELSE s

\* String.prototype.trim
trim(s) == trimEnd(trimStart(s))

\* String.prototype.includes, for a one-character needle
includes(s, c) == \E i \in 1..Len(s) : s[i] = c

\* index of the first c in s, 0 when there is none
IndexOf(s, c) ==
    IF includes(s, c) THEN CHOOSE i \in 1..Len(s) : s[i] = c /\ \A j \in 1..(i - 1) : s[j] # c
    ELSE 0

\* String.prototype.split, for a one-character separator: every occurrence splits
RECURSIVE split(_, _)
split(s, c) ==
    IF IndexOf(s, c) = 0 THEN <<s>>
    ELSE <<SubSeq(s, 1, IndexOf(s, c) - 1)>> \o split(SubSeq(s, IndexOf(s, c) + 1, Len(s)), c)

\* the string of a character sequence
RECURSIVE Str(_)
Str(s) == IF s = <<>> THEN "" ELSE Head(s) \o Str(Tail(s))

IsDigits(s) == \A i \in 1..Len(s) : IsDigit(s[i])

RECURSIVE DigitsValue(_)
DigitsValue(s) ==
    IF s = <<>> THEN 0 ELSE 10 * DigitsValue(SubSeq(s, 1, Len(s) - 1)) + DigitVal(s[Len(s)])

\* the longest prefix of s made of digits
RECURSIVE LeadingDigits(_)
LeadingDigits(s) ==
    IF s # <<>> /\ IsDigit(Head(s)) THEN <<Head(s)>> \o LeadingDigits(Tail(s)) ELSE <<>>

\* Number(string): the whole trimmed text must be a decimal literal; the empty
\* text is 0
StringToNumber(s) ==
    LET t == trim(s)
        signed == t # <<>> /\ t[1] \in {"+", "-"}
        body == IF signed THEN Tail(t) ELSE t
        dot == IndexOf(body, ".")
        ip == IF dot = 0 THEN body ELSE SubSeq(body, 1, dot - 1)
        fp == IF dot = 0 THEN <<>> ELSE SubSeq(body, dot + 1, Len(body))
        sign == IF signed /\ t[1] = "-" THEN -1 ELSE 1
    IN  IF t = <<>> THEN Int2Num(0)
        ELSE IF IsDigits(ip) /\ IsDigits(fp) /\ Len(ip) + Len(fp) > 0
             THEN Dec(sign * DigitsValue(ip \o fp), Len(fp))
             ELSE NaN

\* parseFloat(string): the longest prefix of the left-trimmed text that is a
\* decimal literal; NaN when there is none
parseFloat(s) ==
    LET t == trimStart(s)
        signed == t # <<>> /\ t[1] \in {"+", "-"}
        body == IF signed THEN Tail(t) ELSE t
        ip == LeadingDigits(body)
        rest == SubSeq(body, Len(ip) + 1, Len(body))
        fp == IF rest # <<>> /\ Head(rest) = "." THEN LeadingDigits(Tail(rest)) ELSE <<>>
        sign == IF signed /\ t[1] = "-" THEN -1 ELSE 1
    IN  IF Len(ip) + Len(fp) > 0
        THEN Dec(sign * DigitsValue(ip \o fp), Len(fp))
        ELSE NaN

RECURSIVE NatToString(_)
NatToString(n) ==
    IF n < 10 THEN DigitChars[n + 1]
    ELSE NatToString(n \div 10) \o DigitChars[(n % 10) + 1]

RECURSIVE ZeroPad(_, _)
ZeroPad(str, width) == IF Len(str) >= width THEN str ELSE ZeroPad("0" \o str, width)

\* Number.prototype.toString, as a template literal applies it
NumberToString(a) ==
    IF a.t = "NaN" THEN "NaN"
    ELSE IF a.t = "undefined" THEN "undefined"
    ELSE LET abs == IF a.m < 0 THEN -a.m ELSE a.m
             sgn == IF a.m < 0 THEN "-" ELSE ""
         IN  IF a.e = 0 THEN sgn \o NatToString(abs)
             ELSE sgn \o NatToString(abs \div Pow10(a.e)) \o "."
                      \o ZeroPad(NatToString(abs % Pow10(a.e)), a.e)

-----------------------------------------------------------------------------
(* The crop-factor table (src/src/cameraData.ts) *)

defaultCropFactors ==
    "ILCE-7M4" :> Dec(10, 1) @@
    "ILCE-7RM5" :> Dec(10, 1) @@
    "ILCE-7CM2" :> Dec(10, 1) @@
    "ILCE-9M3" :> Dec(10, 1) @@
    "ILCE-1" :> Dec(10, 1) @@
    "ILCE-6700" :> Dec(15, 1) @@
    "ILCE-6400" :> Dec(15, 1) @@
    "ZV-E1" :> Dec(10, 1) @@
    "ZV-E10" :> Dec(15, 1) @@
    "NIKON Z 8" :> Dec(10, 1) @@
    "NIKON Z 9" :> Dec(10, 1) @@
    "NIKON Z 6_2" :> Dec(10, 1) @@
    "NIKON Z 7_2" :> Dec(10, 1) @@
    "NIKON Z f" :> Dec(10, 1) @@
    "NIKON Z 5" :> Dec(10, 1) @@
    "NIKON Z fc" :> Dec(15, 1) @@
    "NIKON Z 30" :> Dec(15, 1) @@
    "NIKON Z 50" :> Dec(15, 1) @@
    "NIKON D850" :> Dec(10, 1) @@
    "NIKON D7500" :> Dec(15, 1) @@
    "NIKON D7100" :> Dec(15, 1) @@
    "Canon EOS R5" :> Dec(10, 1) @@
    "Canon EOS R6 Mark II" :> Dec(10, 1) @@
    "Canon EOS R7" :> Dec(16, 1) @@
    "Canon EOS R8" :> Dec(10, 1) @@
    "Canon EOS R10" :> Dec(16, 1) @@
    "Canon EOS R50" :> Dec(16, 1) @@
    "Canon EOS M6" :> Dec(16, 1) @@
    "Canon EOS M6 Mark II" :> Dec(16, 1) @@
    "Canon EOS 6D" :> Dec(10, 1) @@
    "Canon EOS 6D Mark II" :> Dec(10, 1) @@
    "Canon EOS 90D" :> Dec(16, 1) @@
    "X-T5" :> Dec(15, 1) @@
    "X-H2" :> Dec(15, 1) @@
    "X-H2S" :> Dec(15, 1) @@
    "X-S20" :> Dec(15, 1) @@
    "X100VI" :> Dec(15, 1) @@
    "GFX100S" :> Dec(79, 2)

\* cropFactors[model]: undefined when the table has no such key
Lookup(factors, model) ==
    IF model \in DOMAIN factors THEN factors[model] ELSE Undefined

\* { ...prev, [model]: value }
Spread(prev, model, value) ==
    [k \in DOMAIN prev \cup {model} |-> IF k = model THEN value ELSE prev[k]]

\* CoercedFactor without the factor <= 0 test
CoercedFactor_NaNOnly(factorStr) ==
    LET factor == parseFloat(factorStr)
    IN  IF isNaN(factor) THEN Dec(10, 1) ELSE factor

\* the value handleCropFactorChange stores for an input text
CoercedFactor(factorStr) ==
    LET factor == parseFloat(factorStr)
    IN  IF isNaN(factor) \/ NumLE(factor, Int2Num(0)) THEN Dec(10, 1) ELSE factor

-----------------------------------------------------------------------------
(* getEquivalentFocalLength *)

\* getEquivalentFocalLength with the crop factor tried before the 35mm value
getEquivalentFocalLength_CropFirst(photo, factors) ==
    LET p == photo.exif IN
    IF /\ p.Model \notin {NoString, ""}
       /\ Truthy(Lookup(factors, p.Model))
       /\ IsNumber(p.FocalLength)
    THEN MathRound(NumMul(p.FocalLength, Lookup(factors, p.Model)))
    ELSE IF IsNumber(p.FocalLengthIn35mmFormat) /\ NumGT0(p.FocalLengthIn35mmFormat)
         THEN p.FocalLengthIn35mmFormat
         ELSE p.FocalLength

\* getEquivalentFocalLength with the product truncated instead of rounded
getEquivalentFocalLength_Truncate(photo, factors) ==
    LET p == photo.exif IN
    IF IsNumber(p.FocalLengthIn35mmFormat) /\ NumGT0(p.FocalLengthIn35mmFormat)
    THEN p.FocalLengthIn35mmFormat
    ELSE IF /\ p.Model \notin {NoString, ""}
            /\ Truthy(Lookup(factors, p.Model))
            /\ IsNumber(p.FocalLength)
         THEN LET x == NumMul(p.FocalLength, Lookup(factors, p.Model))
              IN  IF x.t = "num" THEN Int2Num(x.m \div Pow10(x.e)) ELSE NaN
         ELSE p.FocalLength

\* getEquivalentFocalLength with the fallback rounded like the crop-factor case
getEquivalentFocalLength_RoundFallback(photo, factors) ==
    LET p == photo.exif IN
    IF IsNumber(p.FocalLengthIn35mmFormat) /\ NumGT0(p.FocalLengthIn35mmFormat)
    THEN p.FocalLengthIn35mmFormat
    ELSE IF /\ p.Model \notin {NoString, ""}
            /\ Truthy(Lookup(factors, p.Model))
            /\ IsNumber(p.FocalLength)
         THEN MathRound(NumMul(p.FocalLength, Lookup(factors, p.Model)))
         ELSE IF IsNumber(p.FocalLength) THEN MathRound(p.FocalLength) ELSE p.FocalLength

\* App.tsx:1116-1128; factors is the cropFactors state the render closed over
getEquivalentFocalLength(photo, factors) ==
    LET p == photo.exif IN
    IF IsNumber(p.FocalLengthIn35mmFormat) /\ NumGT0(p.FocalLengthIn35mmFormat)
    THEN p.FocalLengthIn35mmFormat
    ELSE IF /\ p.Model \notin {NoString, ""}
            /\ Truthy(Lookup(factors, p.Model))
            /\ IsNumber(p.FocalLength)
         THEN MathRound(NumMul(p.FocalLength, Lookup(factors, p.Model)))
         ELSE p.FocalLength

-----------------------------------------------------------------------------
(* parseFocalLengthRanges *)

\* a ParsedRange (App.tsx:823-827); its test closure is kept as data: value for
\* a single rule, ranges (min, max pairs) for a range or merged rule
Rule(type, label, value, ranges) ==
    [type |-> type, label |-> label, value |-> value, ranges |-> ranges]

\* the null a malformed group maps to
Null == Rule("null", "", Undefined, <<>>)

\* const [min, max] = text.split('-').map(Number): a missing element is undefined
MinMax(text) ==
    LET pieces == split(text, "-")
    IN  [min |-> StringToNumber(pieces[1]),
         max |-> IF Len(pieces) >= 2 THEN StringToNumber(pieces[2]) ELSE Undefined]

\* subRanges.map(s => `[${s}]`).join('+')
RECURSIVE JoinBracketed(_)
JoinBracketed(subRanges) ==
    IF Len(subRanges) = 1 THEN "[" \o Str(subRanges[1]) \o "]"
    ELSE "[" \o Str(subRanges[1]) \o "]+" \o JoinBracketed(Tail(subRanges))

\* ParseMerged honouring the sub-ranges that parse and skipping the others
ParseMerged_Partial(trimmedGroup) ==
    LET parts == split(trimmedGroup, "+")
        subRanges == [i \in 1..Len(parts) |-> trim(parts[i])]
        IsValid(sub) == ~isNaN(MinMax(sub).min) /\ ~isNaN(MinMax(sub).max)
        validSubRanges == SelectSeq(subRanges, IsValid)
    IN  IF validSubRanges = <<>>
        THEN Null
        ELSE Rule("merged", JoinBracketed(validSubRanges) \o "mm", Undefined,
                  [i \in 1..Len(validSubRanges) |-> MinMax(validSubRanges[i])])

\* App.tsx:1143-1160, the branch of a group containing '+'
ParseMerged(trimmedGroup) ==
    LET parts == split(trimmedGroup, "+")
        subRanges == [i \in 1..Len(parts) |-> trim(parts[i])]
        parsedSubRanges == [i \in 1..Len(subRanges) |-> MinMax(subRanges[i])]
    IN  IF \E i \in 1..Len(parsedSubRanges) :
               isNaN(parsedSubRanges[i].min) \/ isNaN(parsedSubRanges[i].max)
        THEN Null
        ELSE Rule("merged", JoinBracketed(subRanges) \o "mm", Undefined, parsedSubRanges)

\* App.tsx:1174-1183, the branch of a min-max range
ParseRange(trimmedGroup) ==
    LET r == MinMax(trimmedGroup)
    IN  IF ~isNaN(r.min) /\ ~isNaN(r.max)
        THEN Rule("range", NumberToString(r.min) \o "-" \o NumberToString(r.max) \o "mm",
                  Undefined, <<r>>)
        ELSE Null

\* App.tsx:1133-1184, the callback mapped over the groups
ParseGroup(group) ==
    LET trimmedGroup == trim(group)
    IN  IF toLowerCase(trimmedGroup) = <<"o", "t", "h", "e", "r">>
        THEN Rule("other", "Other", Undefined, <<>>)
        ELSE IF includes(trimmedGroup, "+")
        THEN ParseMerged(trimmedGroup)
        ELSE IF ~includes(trimmedGroup, "-") /\ ~isNaN(StringToNumber(trimmedGroup))
        THEN Rule("single", NumberToString(StringToNumber(trimmedGroup)) \o "mm",
                  StringToNumber(trimmedGroup), <<>>)
        ELSE ParseRange(trimmedGroup)

\* Array.prototype.filter(Boolean) on the mapped groups: the nulls go
RECURSIVE FilterBoolean(_)
FilterBoolean(mapped) ==
    IF mapped = <<>> THEN <<>>
    ELSE IF Head(mapped) = Null THEN FilterBoolean(Tail(mapped))
    ELSE <<Head(mapped)>> \o FilterBoolean(Tail(mapped))

\* parseFocalLengthRanges with the other rule moved behind the regular rules
parseFocalLengthRanges_OtherLast(rangesStr) ==
    LET groups == split(rangesStr, ",")
        rules == FilterBoolean([i \in 1..Len(groups) |-> ParseGroup(groups[i])])
        IsOther(r) == r.type = "other"
        IsRegular(r) == r.type # "other"
    IN  SelectSeq(rules, IsRegular) \o SelectSeq(rules, IsOther)

\* App.tsx:1131-1185
parseFocalLengthRanges(rangesStr) ==
    LET groups == split(rangesStr, ",")
    IN  FilterBoolean([i \in 1..Len(groups) |-> ParseGroup(groups[i])])

\* parsedRanges.map(r => r.label)
LabelsOf(rules) == [i \in 1..Len(rules) |-> rules[i].label]

\* Test with a single rule that accepts its value only
Test_Exact(rule, fl) ==
    CASE rule.type = "range" ->
             NumLE(rule.ranges[1].min, fl) /\ NumLE(fl, rule.ranges[1].max)
      [] rule.type = "merged" ->
             \E i \in 1..Len(rule.ranges) :
                 NumLE(rule.ranges[i].min, fl) /\ NumLE(fl, rule.ranges[i].max)
      [] rule.type = "single" -> NumEq(fl, rule.value)
      [] OTHER -> FALSE

\* rule.test(fl)
Test(rule, fl) ==
    CASE rule.type = "range" ->
             NumLE(rule.ranges[1].min, fl) /\ NumLE(fl, rule.ranges[1].max)
      [] rule.type = "merged" ->
             \E i \in 1..Len(rule.ranges) :
                 NumLE(rule.ranges[i].min, fl) /\ NumLE(fl, rule.ranges[i].max)
      [] rule.type = "single" -> NumEq(MathRound(fl), rule.value)
      [] OTHER -> FALSE

\* '14-23, 24-70, 70-200, other', the initial text (App.tsx:865)
DefaultRanges == <<"1", "4", "-", "2", "3", ",", " ", "2", "4", "-", "7", "0", ",", " ", "7", "0", "-", "2", "0", "0", ",", " ", "o", "t", "h", "e", "r">>

\* parsedRanges before parseFocalLengthRanges has run on the current text
NotParsed == [called |-> FALSE, rules |-> <<>>]

-----------------------------------------------------------------------------
(* handleGenerateChart *)

\* the elements of a sequence
Range(seq) == {seq[i] : i \in DOMAIN seq}

\* FindRule taking the last rule that accepts fl
FindRule_Last(regularRules, fl) ==
    IF \E j \in 1..Len(regularRules) : Test(regularRules[j], fl)
    THEN CHOOSE j \in 1..Len(regularRules) :
             /\ Test(regularRules[j], fl)
             /\ \A k \in (j + 1)..Len(regularRules) : ~Test(regularRules[k], fl)
    ELSE 0

\* Array.prototype.find on the regular rules: the position of the first rule
\* whose test accepts fl, 0 when there is none
FindRule(regularRules, fl) ==
    IF \E j \in 1..Len(regularRules) : Test(regularRules[j], fl)
    THEN CHOOSE j \in 1..Len(regularRules) :
             /\ Test(regularRules[j], fl)
             /\ \A k \in 1..(j - 1) : ~Test(regularRules[k], fl)
    ELSE 0

\* counts[label]++
Increment(counts, label) == [counts EXCEPT ![label] = @ + 1]

\* CountPhoto with the other count not guarded by else
CountPhoto_OtherUnguarded(counts, focalLength, regularRules, hasOther) ==
    IF ~IsNumber(focalLength) THEN counts
    ELSE LET counted ==
                 IF FindRule(regularRules, focalLength) # 0
                 THEN Increment(counts, regularRules[FindRule(regularRules, focalLength)].label)
                 ELSE counts
         IN  IF hasOther THEN Increment(counted, "Other") ELSE counted

\* CountPhoto with a focal length that is not a number counted under Other
CountPhoto_AbsentToOther(counts, focalLength, regularRules, hasOther) ==
    IF ~IsNumber(focalLength) THEN (IF hasOther THEN Increment(counts, "Other") ELSE counts)
    ELSE IF FindRule(regularRules, focalLength) # 0
         THEN Increment(counts, regularRules[FindRule(regularRules, focalLength)].label)
         ELSE IF hasOther THEN Increment(counts, "Other") ELSE counts

\* App.tsx:1229-1241, the body of the forEach over the filtered photos
CountPhoto(counts, focalLength, regularRules, hasOther) ==
    IF ~IsNumber(focalLength) THEN counts
    ELSE IF FindRule(regularRules, focalLength) # 0
         THEN Increment(counts, regularRules[FindRule(regularRules, focalLength)].label)
         ELSE IF hasOther THEN Increment(counts, "Other") ELSE counts

RECURSIVE CountPhotos(_, _, _, _, _)
CountPhotos(counts, photos, factors, regularRules, hasOther) ==
    IF photos = <<>> THEN counts
    ELSE CountPhotos(CountPhoto(counts, getEquivalentFocalLength(Head(photos), factors),
                                regularRules, hasOther),
                     Tail(photos), factors, regularRules, hasOther)

\* a chart with labels and data (App.tsx:1283-1292)
Chart(labels, data) == [kind |-> "chart", labels |-> labels, data |-> data]

\* chartData = null (App.tsx:873, 1251)
NoChart == [kind |-> "null", labels |-> <<>>, data |-> <<>>]

\* the chart shown when no model or no lens is selected (App.tsx:1194-1203)
NothingSelectedChart == [kind |-> "nothing selected", labels |-> <<>>, data |-> <<>>]

\* CountRanges with labels ordered by descending count and an empty Other kept
CountRanges_ByCount(rules, filteredPhotos, factors) ==
    LET IsOther(r) == r.type = "other"
        IsRegular(r) == r.type # "other"
        hasOther == SelectSeq(rules, IsOther) # <<>>
        regularRules == SelectSeq(rules, IsRegular)
        allLabels == LabelsOf(rules)
        counts == CountPhotos([l \in Range(allLabels) |-> 0], filteredPhotos, factors,
                              regularRules, hasOther)
        Before(i, j) == counts[allLabels[i]] > counts[allLabels[j]]
                            \/ (counts[allLabels[i]] = counts[allLabels[j]] /\ i < j)
        Rank(i) == 1 + Cardinality({j \in 1..Len(allLabels) : Before(j, i)})
        labels == [k \in 1..Len(allLabels) |->
                      allLabels[CHOOSE i \in 1..Len(allLabels) : Rank(i) = k]]
    IN  Chart(labels, [i \in 1..Len(labels) |-> counts[labels[i]]])

\* App.tsx:1223-1246 and 1278-1279: the labels and counts of range mode for
\* the rules the parser returned
CountRanges(rules, filteredPhotos, factors) ==
    LET IsOther(r) == r.type = "other"
        IsRegular(r) == r.type # "other"
        hasOther == SelectSeq(rules, IsOther) # <<>>
        regularRules == SelectSeq(rules, IsRegular)
        allLabels == LabelsOf(rules)
        counts == CountPhotos([l \in Range(allLabels) |-> 0], filteredPhotos, factors,
                              regularRules, hasOther)
        NotOtherLabel(l) == l # "Other"
        labels == IF hasOther /\ counts["Other"] = 0
                  THEN SelectSeq(allLabels, NotOtherLabel)
                  ELSE allLabels
    IN  Chart(labels, [i \in 1..Len(labels) |-> counts[labels[i]]])

\* App.tsx:1221-1246 and 1278-1279, range mode
RangeChart(filteredPhotos, rangesStr, factors) ==
    CountRanges(parseFocalLengthRanges(rangesStr), filteredPhotos, factors)

-----------------------------------------------------------------------------
(* The counts object of continuous mode and of attribute aggregation *)

\* largest bucket of the focal lengths drawn
MaxBucket == 50

\* property keys that are array indices: the canonical decimal strings of the
\* integers from 0; those of the pools are the buckets and the model "6300"
ArrayIndices == (0..MaxBucket) \cup {6300}

ArrayIndexKeys == [n \in ArrayIndices |-> NatToString(n)]

\* the array index a key is, -1 when it is none
ArrayIndex(key) ==
    IF \E n \in ArrayIndices : ArrayIndexKeys[n] = key
    THEN CHOOSE n \in ArrayIndices : ArrayIndexKeys[n] = key
    ELSE -1

\* the count that undefined++ and NaN++ leave behind (App.tsx:1261): NaN, which
\* is told apart from the counts by being negative
NaNCount == -1

\* counts is the sequence of its own properties in the order of their creation
HasKey(counts, key) == \E i \in 1..Len(counts) : counts[i].key = key

\* counts[key] of a key that exists
Get(counts, key) == counts[CHOOSE i \in 1..Len(counts) : counts[i].key = key].value

\* counts[key] = value
Put(counts, key, value) ==
    IF HasKey(counts, key)
    THEN [i \in 1..Len(counts) |->
             IF counts[i].key = key THEN [key |-> key, value |-> value] ELSE counts[i]]
    ELSE Append(counts, [key |-> key, value |-> value])

\* Object.keys: the array indices in ascending numeric order, then the other
\* keys in the order of their creation
ObjectKeys(counts) ==
    LET n == Len(counts)
        IsIndex(i) == ArrayIndex(counts[i].key) >= 0
        Before(i, j) ==
            \/ IsIndex(i) /\ ~IsIndex(j)
            \/ IsIndex(i) /\ IsIndex(j) /\ ArrayIndex(counts[i].key) < ArrayIndex(counts[j].key)
            \/ ~IsIndex(i) /\ ~IsIndex(j) /\ i < j
        Rank(i) == 1 + Cardinality({j \in 1..n : Before(j, i)})
    IN  [k \in 1..n |-> counts[CHOOSE i \in 1..n : Rank(i) = k].key]

\* labels.map(label => counts[label]) (App.tsx:1279)
DataOf(labels, counts) == [i \in 1..Len(labels) |-> Get(counts, labels[i])]

\* (a, b) => counts[b] - counts[a] is a consistent comparison: no difference
\* is NaN, or every difference is NaN or 0
Consistent(counts) ==
    \/ \A i \in 1..Len(counts) : counts[i].value # NaNCount
    \/ \A i, j \in 1..Len(counts) :
           counts[i].value = NaNCount \/ counts[j].value = NaNCount
               \/ counts[i].value = counts[j].value

\* keys.sort((a, b) => counts[b] - counts[a]) under a consistent comparison:
\* descending count, equal counts (a difference of NaN counts as 0) in the
\* order of keys
StableSort(keys, counts) ==
    LET n == Len(keys)
        Less(i, j) ==
            /\ Get(counts, keys[i]) # NaNCount /\ Get(counts, keys[j]) # NaNCount
            /\ Get(counts, keys[i]) > Get(counts, keys[j])
        Before(i, j) == Less(i, j) \/ (~Less(j, i) /\ i < j)
        Rank(i) == 1 + Cardinality({j \in 1..n : Before(j, i)})
    IN  [k \in 1..n |-> keys[CHOOSE i \in 1..n : Rank(i) = k]]

\* the sequences of k different elements of a set
RECURSIVE Arrangements(_, _)
Arrangements(set, k) ==
    IF k = 0 THEN {<<>>}
    ELSE UNION {{<<x>> \o rest : rest \in Arrangements(set \ {x}, k - 1)} : x \in set}

Min(a, b) == IF a <= b THEN a ELSE b

\* what keys.sort(...).slice(0, 3) may be (App.tsx:1265-1266): the order that
\* sort leaves under an inconsistent comparison is implementation-defined
SortedSlice(keys, counts) ==
    IF Consistent(counts)
    THEN {SubSeq(StableSort(keys, counts), 1, Min(3, Len(keys)))}
    ELSE Arrangements(Range(keys), Min(3, Len(keys)))

-----------------------------------------------------------------------------
(* Continuous mode *)

\* filteredPhotos.map(getEquivalentFocalLength).filter(fl => typeof fl === 'number')
NumericFocalLengths(filteredPhotos, factors) ==
    LET all == [i \in 1..Len(filteredPhotos) |->
                   getEquivalentFocalLength(filteredPhotos[i], factors)]
    IN  SelectSeq(all, IsNumber)

\* Math.min(...focalLengths) of a non-empty list: NaN if any element is NaN
MathMin(focalLengths) ==
    IF \E i \in 1..Len(focalLengths) : focalLengths[i].t = "NaN" THEN NaN
    ELSE focalLengths[CHOOSE i \in 1..Len(focalLengths) :
                         \A j \in 1..Len(focalLengths) : NumLE(focalLengths[i], focalLengths[j])]

\* Math.max(...focalLengths) of a non-empty list
MathMax(focalLengths) ==
    IF \E i \in 1..Len(focalLengths) : focalLengths[i].t = "NaN" THEN NaN
    ELSE focalLengths[CHOOSE i \in 1..Len(focalLengths) :
                         \A j \in 1..Len(focalLengths) : NumLE(focalLengths[j], focalLengths[i])]

\* i++
PlusOne(a) == Dec(a.m + Pow10(a.e), a.e)

\* for (let i = minFl; i <= maxFl; i++) counts[i.toString()] = 0
RECURSIVE FillBuckets(_, _, _)
FillBuckets(counts, i, maxFl) ==
    IF NumLE(i, maxFl)
    THEN FillBuckets(Put(counts, NumberToString(i), 0), PlusOne(i), maxFl)
    ELSE counts

\* counts[key]++: undefined++ and NaN++ store NaN
PlusPlus(counts, key) ==
    IF HasKey(counts, key) /\ Get(counts, key) # NaNCount
    THEN Put(counts, key, Get(counts, key) + 1)
    ELSE Put(counts, key, NaNCount)

\* focalLengths.forEach(fl => counts[Math.round(fl).toString()]++)
RECURSIVE CountRounded(_, _)
CountRounded(counts, focalLengths) ==
    IF focalLengths = <<>> THEN counts
    ELSE CountRounded(PlusPlus(counts, NumberToString(MathRound(Head(focalLengths)))),
                      Tail(focalLengths))

\* App.tsx:1254-1262: counts for a non-empty list of focal lengths
Histogram(focalLengths) ==
    CountRounded(FillBuckets(<<>>, MathMin(focalLengths), MathMax(focalLengths)),
                 focalLengths)

\* the chart of a counts object whose labels are its keys (App.tsx:1263, 1279)
ChartOfCounts(counts) == Chart(ObjectKeys(counts), DataOf(ObjectKeys(counts), counts))

\* ContinuousChart that charts an empty list too
ContinuousChart_NoEmptyCheck(focalLengths) ==
    IF focalLengths = <<>> THEN Chart(<<>>, <<>>)
    ELSE ChartOfCounts(Histogram(focalLengths))

\* App.tsx:1248-1263 and 1278-1292: what continuous mode leaves in chartData
ContinuousChart(focalLengths) ==
    IF focalLengths = <<>> THEN NoChart
    ELSE ChartOfCounts(Histogram(focalLengths))

\* App.tsx:1265-1266: what continuous mode may leave in topFocalLengthLabels
ContinuousTop(focalLengths, previous) ==
    IF focalLengths = <<>> THEN {previous}
    ELSE SortedSlice(ObjectKeys(Histogram(focalLengths)), Histogram(focalLengths))

-----------------------------------------------------------------------------
(* Attribute aggregation *)

\* photo.exif[groupBy]
AttributeOf(photo, attribute) ==
    IF attribute = "Model" THEN photo.exif.Model ELSE photo.exif.LensModel

\* AttributeKey without the label for missing values
AttributeKey_NoUnknown(photo, attribute) ==
    IF AttributeOf(photo, attribute) = NoString THEN "" ELSE AttributeOf(photo, attribute)

\* (photo.exif[groupBy] as string) || 'Unknown'
AttributeKey(photo, attribute) ==
    IF AttributeOf(photo, attribute) \in {NoString, ""} THEN "Unknown"
    ELSE AttributeOf(photo, attribute)

\* counts[key] = (counts[key] || 0) + 1
AddOne(counts, key) ==
    IF HasKey(counts, key) THEN Put(counts, key, Get(counts, key) + 1)
    ELSE Put(counts, key, 1)

\* App.tsx:1269-1272
RECURSIVE CountAttribute(_, _, _)
CountAttribute(counts, photos, attribute) ==
    IF photos = <<>> THEN counts
    ELSE CountAttribute(AddOne(counts, AttributeKey(Head(photos), attribute)),
                        Tail(photos), attribute)

\* labels and data for a counts object sorted by count (App.tsx:1274, 1279)
SortedChart(counts) ==
    Chart(StableSort(ObjectKeys(counts), counts),
          DataOf(StableSort(ObjectKeys(counts), counts), counts))

\* App.tsx:1268-1279
AttributeChart(filteredPhotos, attribute) ==
    SortedChart(CountAttribute(<<>>, filteredPhotos, attribute))

-----------------------------------------------------------------------------
(* Filtering *)

\* App.tsx:1189-1191
PhotosFromSelectedFolders ==
    LET InSelectedFolder(photo) == photo.folderPath \in selectedFolderPaths
    IN  SelectSeq(localPhotos, InSelectedFolder)

\* exif.Model || ''
ModelOrEmpty(photo) == IF photo.exif.Model = NoString THEN "" ELSE photo.exif.Model

\* App.tsx:1207-1214
FilteredPhotos ==
    LET Matches(photo) ==
            /\ ModelOrEmpty(photo) \in selectedModels
            /\ photo.exif.LensModel \in {NoString, ""} \/ photo.exif.LensModel \in selectedLenses
    IN  SelectSeq(PhotosFromSelectedFolders, Matches)

\* App.tsx:893-896 (the names, without their order)
availableModels == {p.exif.Model : p \in Range(localPhotos)} \ {NoString, ""}

\* App.tsx:898-901 (the names, without their order)
availableLenses == {p.exif.LensModel : p \in Range(localPhotos)} \ {NoString, ""}

\* the selections once a scan has completed: the effects (App.tsx:903-909)
\* select every model and lens, the merge (App.tsx:1093-1094) every new folder
EverythingSelected ==
    /\ selectedModels = availableModels
    /\ selectedLenses = availableLenses
    /\ selectedFolderPaths = {p.folderPath : p \in Range(localPhotos)}

-----------------------------------------------------------------------------
(* Resolving focal lengths under an edited crop-factor table *)

\* largest focal length drawn, in half millimetres
MaxFocalHalves == 5

\* focal lengths a photo may report: absent, NaN, and multiples of 0.5 mm
\* (negative ones included: EXIF values are not validated)
FocalLengthValues ==
    {Undefined, NaN} \cup {Dec(5 * k, 1) : k \in (-1)..MaxFocalHalves}

FocalLengthIn35mmValues ==
    {Undefined, NaN, Int2Num(0), Int2Num(35), Dec(5, 1)}

\* camera models: two of the default table, one unknown, the empty name, none
ModelValues == {"ILCE-6700", "GFX100S", "MyCamera", "", NoString}

ExifValues ==
    [Model : ModelValues, LensModel : {NoString}, FocalLength : FocalLengthValues,
     FocalLengthIn35mmFormat : FocalLengthIn35mmValues]

\* a PhotoData (App.tsx:830-836)
Photo(id, folderPath, exif) == [id |-> id, folderPath |-> folderPath, exif |-> exif]

\* models whose multiplier the sidebar lets the user edit
FactorModels == {"ILCE-6700", "MyCamera"}

\* texts typed into a multiplier input
FactorTexts ==
    { <<>>, <<"a", "b", "c">>, <<"0">>, <<"-", "2">>, <<".">>,
      <<"1", ".", "6">>, <<" ", "2", "x">>, <<".", "5">>, <<"1", ".", "0">>, <<"3">> }

\* chartData is null

\* the settings after construction (App.tsx:863-871)
InitialSettings ==
    /\ groupBy = "Model"
    /\ focalLengthMode = "range"
    /\ selectedModels = {}
    /\ selectedLenses = {}
    /\ selectedFolderPaths = {}

\* the folder list is that of the photos (App.tsx:1091-1092) and the debounce
\* is at rest (App.tsx:881, 911-918)
Settled ==
    /\ allFolderPaths = {p.folderPath : p \in Range(localPhotos)}
    /\ debouncedFocalLengthRanges = focalLengthRanges
    /\ timerPending = FALSE

\* the handler of src/api/synology.ts is not running
NoInvocation ==
    [pc |-> "idle", method |-> "",
     body |-> [host |-> NoString, account |-> NoString, password |-> NoString,
               albumId |-> NoString],
     sid |-> "", list |-> <<>>, error |-> "", fetches |-> <<>>, responses |-> <<>>]

\* no chart yet (App.tsx:873-877)
InitialChart ==
    /\ chartData = NoChart
    /\ topFocalLengthLabels = <<>>

\* one photo has been scanned
InitFocal ==
    /\ cropFactors = defaultCropFactors
    /\ localPhotos \in {<<Photo("local-a.jpg-1", "Trip", exif)>> : exif \in ExifValues}
    /\ equivalents = <<>>
    /\ focalLengthRanges = DefaultRanges
    /\ parsedRanges = NotParsed
    /\ groupBy = "Model"
    /\ focalLengthMode = "range"
    /\ EverythingSelected
    /\ InitialChart
    /\ Settled
    /\ invocation = NoInvocation

\* App.tsx:1230 / 1249: every photo is resolved with the table of this render
ResolveFocalLengths ==
    /\ equivalents' = [i \in DOMAIN localPhotos |->
                          getEquivalentFocalLength(localPhotos[i], cropFactors)]
    /\ UNCHANGED <<cropFactors, localPhotos, focalLengthRanges, parsedRanges, settings, chart>>
    /\ UNCHANGED <<allFolderPaths, debounce, invocation>>

\* App.tsx:936-942; the values resolved with the previous table are dropped
handleCropFactorChange(model, factorStr) ==
    /\ cropFactors' = Spread(cropFactors, model, CoercedFactor(factorStr))
    /\ equivalents' = <<>>
    /\ UNCHANGED <<localPhotos, focalLengthRanges, parsedRanges, settings, chart>>
    /\ UNCHANGED <<allFolderPaths, debounce, invocation>>

NextFocal ==
    \/ ResolveFocalLengths
    \/ \E model \in FactorModels, factorStr \in FactorTexts :
           handleCropFactorChange(model, factorStr)

SpecFocal == InitFocal /\ [][NextFocal]_vars

\* the table alone: the state after construction (App.tsx:853-881), edited
InitCrop ==
    /\ cropFactors = defaultCropFactors
    /\ localPhotos = <<>>
    /\ equivalents = <<>>
    /\ focalLengthRanges = DefaultRanges
    /\ parsedRanges = NotParsed
    /\ InitialSettings
    /\ InitialChart
    /\ Settled
    /\ invocation = NoInvocation

NextCrop ==
    \E model \in FactorModels \cup {"GFX100S"}, factorStr \in FactorTexts :
        handleCropFactorChange(model, factorStr)

SpecCrop == InitCrop /\ [][NextCrop]_vars

-----------------------------------------------------------------------------
(* Claims about getEquivalentFocalLength and the crop-factor table *)

\* the photo's 35mm-equivalent value is a number greater than 0
Has35mm(p) ==
    p.exif.FocalLengthIn35mmFormat.t = "num" /\ p.exif.FocalLengthIn35mmFormat.m > 0

\* the photo's model has an entry in the table and its focal length is a number
HasCropCase(p, factors) ==
    p.exif.Model \in DOMAIN factors /\ p.exif.FocalLength.t \in {"num", "NaN"}

\* n is the integer nearest to the decimal x, the upper one on a tie:
\* x - 1/2 < n <= x + 1/2
IsNearestInteger(n, x) ==
    /\ n.t = "num" /\ n.e = 0 /\ x.t = "num"
    /\ 2 * x.m - Pow10(x.e) < 2 * n.m * Pow10(x.e)
    /\ 2 * n.m * Pow10(x.e) <= 2 * x.m + Pow10(x.e)

\* the exact product of a focal length and a multiplier, as a decimal
ExactProduct(fl, factor) == [t |-> "num", m |-> fl.m * factor.m, e |-> fl.e + factor.e]

\* C1: a photo whose FocalLengthIn35mmFormat is a number > 0 resolves to exactly
\* that value, whatever its Model and FocalLength and whatever the table holds
C1_CameraReported35mmWins ==
    \A i \in DOMAIN equivalents :
        Has35mm(localPhotos[i]) =>
            equivalents[i] = localPhotos[i].exif.FocalLengthIn35mmFormat

\* a 35mm value next to a focal length whose crop-factor product differs from
\* it, resolved under an edited table
C1_Witness ==
    /\ equivalents # <<>>
    /\ cropFactors # defaultCropFactors
    /\ Has35mm(localPhotos[1])
    /\ HasCropCase(localPhotos[1], cropFactors)
    /\ localPhotos[1].exif.FocalLength.t = "num"
    /\ ~IsNearestInteger(localPhotos[1].exif.FocalLengthIn35mmFormat,
                         ExactProduct(localPhotos[1].exif.FocalLength,
                                      cropFactors[localPhotos[1].exif.Model]))

\* C2: with no usable 35mm value, a model in the table and a numeric focal
\* length, the result is the integer nearest to FocalLength * cropFactors[Model]
\* (ties upwards); a NaN focal length gives NaN
C2_CropFactorProductRounded ==
    \A i \in DOMAIN equivalents :
        LET p == localPhotos[i] IN
        (~Has35mm(p) /\ HasCropCase(p, cropFactors)) =>
            IF p.exif.FocalLength.t = "num"
            THEN IsNearestInteger(equivalents[i],
                                  ExactProduct(p.exif.FocalLength, cropFactors[p.exif.Model]))
            ELSE equivalents[i] = NaN

\* a product that lies exactly halfway between two integers
C2_Witness ==
    /\ equivalents # <<>>
    /\ ~Has35mm(localPhotos[1])
    /\ HasCropCase(localPhotos[1], cropFactors)
    /\ localPhotos[1].exif.FocalLength.t = "num"
    /\ LET x == ExactProduct(localPhotos[1].exif.FocalLength, cropFactors[localPhotos[1].exif.Model])
       IN  x.e > 0 /\ (2 * x.m) % Pow10(x.e) = 0 /\ x.m % Pow10(x.e) # 0

\* C3: when neither case applies the result is FocalLength itself, neither
\* rounded nor multiplied, and it is absent exactly when FocalLength is absent
C3_FallbackIsFocalLength ==
    \A i \in DOMAIN equivalents :
        LET p == localPhotos[i] IN
        (~Has35mm(p) /\ ~HasCropCase(p, cropFactors)) =>
            /\ equivalents[i] = p.exif.FocalLength
            /\ (equivalents[i] = Undefined) <=> (p.exif.FocalLength = Undefined)

\* a fractional focal length of a camera the table does not know
C3_Witness ==
    /\ equivalents # <<>>
    /\ ~Has35mm(localPhotos[1])
    /\ localPhotos[1].exif.Model \notin DOMAIN cropFactors
    /\ localPhotos[1].exif.FocalLength.t = "num"
    /\ localPhotos[1].exif.FocalLength.e > 0

\* every multiplier of the table is a number greater than 0
AllFactorsPositive ==
    \A k \in DOMAIN cropFactors : cropFactors[k].t = "num" /\ cropFactors[k].m > 0

\* the texts of FactorTexts that hold no number, or a number <= 0
RejectedFactorTexts == { <<>>, <<"a", "b", "c">>, <<"0">>, <<"-", "2">>, <<".">> }

\* C4: from defaultCropFactors on, every multiplier is strictly positive after
\* any sequence of edits, and an edit whose text is unparseable or <= 0 stores
\* exactly 1.0 for its model
C4_FactorsStayPositive ==
    /\ []AllFactorsPositive
    /\ [][\A model \in FactorModels \cup {"GFX100S"}, factorStr \in RejectedFactorTexts :
              handleCropFactorChange(model, factorStr) =>
                  cropFactors'[model] = [t |-> "num", m |-> 1, e |-> 0]]_vars

\* a model of the default table whose multiplier was coerced to 1.0, beside a
\* model that an edit added
C4_Witness ==
    /\ cropFactors["ILCE-6700"] = [t |-> "num", m |-> 1, e |-> 0]
    /\ defaultCropFactors["ILCE-6700"] # [t |-> "num", m |-> 1, e |-> 0]
    /\ "MyCamera" \in DOMAIN cropFactors

-----------------------------------------------------------------------------
(* Parsing edited range texts *)

\* most comma-separated segments of a typed text
MaxSegments == 2

\* segments a user may type between commas, well-formed and not
SegmentPool ==
    { <<"o", "t", "h", "e", "r">>,
      <<" ", "O", "t", "h", "e", "r", " ">>,
      <<"O", "T", "H", "E", "R">>,
      <<"o", "t", "h", "e", "r", "s">>,
      <<"2", "4", "-", "7", "0">>,
      <<" ", "2", "4", " ", "-", " ", "7", "0", " ">>,
      <<"8", "5">>,
      <<" ", "8", "5", ".", "0">>,
      <<"8", ".", "5">>,
      <<>>,
      <<" ">>,
      <<"b", "a", "d", "-", "d", "a", "t", "a">>,
      <<"2", "4", "-", "7", "0", "-", "1", "0", "0">>,
      <<"-", "5", "-", "1", "0">>,
      <<"2", "4", "-">>,
      <<"1", "0", "0", "-", "4", "0", "0", "+", "5", "0", "0", "-", "6", "0", "0">>,
      <<"2", "4", "-", "7", "0", "+", "8", "5">>,
      <<"2", "4", "-", "7", "0", "+", "x", "-", "9">>,
      <<"1", "0", "-", "2", "0", "+", " ", "3", "0", "-", "4", "0", " ">>,
      <<"2", "4", "-", "7", "0", "+">>,
      <<"1", "2", "a">>,
      <<"7", "0", "-", "2", "4">>,
      <<"1", "-", "2", "-", "3", "+", "4", "-", "5">> }

\* "24-70, 85, 100-400+500-600, other"
ExampleRanges == <<"2", "4", "-", "7", "0", ",", " ", "8", "5", ",", " ", "1", "0", "0", "-", "4", "0", "0", "+", "5", "0", "0", "-", "6", "0", "0", ",", " ", "o", "t", "h", "e", "r">>

\* "bad-data, 50"
BadDataRanges == <<"b", "a", "d", "-", "d", "a", "t", "a", ",", " ", "5", "0">>

\* texts the next edit of the range input may leave in it: a single segment,
\* the present text with one more segment typed after a comma, or one of the
\* three texts above
RangeTexts(current) ==
    SegmentPool
    \cup {current \o <<",">> \o segment :
            segment \in IF Len(split(current, ",")) < MaxSegments THEN SegmentPool ELSE {}}
    \cup {DefaultRanges, ExampleRanges, BadDataRanges}

InitParse ==
    /\ cropFactors = defaultCropFactors
    /\ localPhotos = <<>>
    /\ equivalents = <<>>
    /\ focalLengthRanges = DefaultRanges
    /\ parsedRanges = NotParsed
    /\ InitialSettings
    /\ InitialChart
    /\ Settled
    /\ invocation = NoInvocation

\* App.tsx:1391, onChange of the range input; the rules of the old text are
\* dropped, and a changed text (re)starts the debounce timer (App.tsx:911-918)
setFocalLengthRanges(text) ==
    /\ focalLengthRanges' = text
    /\ parsedRanges' = NotParsed
    /\ timerPending' = (timerPending \/ text # focalLengthRanges)
    /\ UNCHANGED <<cropFactors, localPhotos, equivalents, settings, chart>>
    /\ UNCHANGED <<allFolderPaths, debouncedFocalLengthRanges, invocation>>

\* App.tsx:1222, the text is parsed afresh
ParseRanges ==
    /\ parsedRanges' = [called |-> TRUE, rules |-> parseFocalLengthRanges(focalLengthRanges)]
    /\ UNCHANGED <<cropFactors, localPhotos, equivalents, focalLengthRanges, settings, chart>>
    /\ UNCHANGED <<allFolderPaths, debounce, invocation>>

NextParse ==
    \/ \E text \in RangeTexts(focalLengthRanges) : setFocalLengthRanges(text)
    \/ ParseRanges

SpecParse == InitParse /\ [][NextParse]_vars

-----------------------------------------------------------------------------
(* Claims about parseFocalLengthRanges *)

\* the comma-delimited segments of the range text, trimmed
TrimmedSegments ==
    LET groups == split(focalLengthRanges, ",")
    IN  [i \in 1..Len(groups) |-> trim(groups[i])]

RECURSIVE Flatten(_)
Flatten(seqs) == IF seqs = <<>> THEN <<>> ELSE Head(seqs) \o Flatten(Tail(seqs))

TypesOf(rules) == [i \in 1..Len(rules) |-> rules[i].type]

\* C5: the rules are those of the segments that yield one, in the order of the
\* segments and with nothing in the place of a dropped segment; the text
\* "24-70, 85, 100-400+500-600, other" yields the four rules 24-70mm (range),
\* 85mm (single), [100-400]+[500-600]mm (merged), Other (other), in that order
C5_RulesKeepInputOrder ==
    parsedRanges.called =>
        /\ parsedRanges.rules =
               Flatten([i \in 1..Len(TrimmedSegments) |->
                           parseFocalLengthRanges(TrimmedSegments[i])])
        /\ \A i \in 1..Len(TrimmedSegments) :
               Len(parseFocalLengthRanges(TrimmedSegments[i])) <= 1
        /\ focalLengthRanges = ExampleRanges =>
               /\ LabelsOf(parsedRanges.rules) =
                      <<"24-70mm", "85mm", "[100-400]+[500-600]mm", "Other">>
               /\ TypesOf(parsedRanges.rules) = <<"range", "single", "merged", "other">>

\* the example text has been parsed
C5_Witness ==
    /\ parsedRanges.called
    /\ focalLengthRanges = ExampleRanges
    /\ Len(parsedRanges.rules) = 4

\* the text is "other" in any letter case
IsOtherSegment(t) == toLowerCase(t) = <<"o", "t", "h", "e", "r">>

\* both elements of text.split('-') taken as min and max are numbers
HasTwoNumbers(t) ==
    LET pieces == split(t, "-")
    IN  /\ Len(pieces) >= 2
        /\ StringToNumber(pieces[1]).t = "num"
        /\ StringToNumber(pieces[2]).t = "num"

\* a group of '+'-separated parts, each giving two numbers
IsValidMergedGroup(t) ==
    /\ includes(t, "+")
    /\ \A i \in 1..Len(split(t, "+")) : HasTwoNumbers(trim(split(t, "+")[i]))

\* a text without '-' that Number accepts
IsSingleNumber(t) == ~includes(t, "-") /\ StringToNumber(t).t = "num"

\* a malformed segment in the sense of C6: empty or white space only, or none
\* of "other", a valid merged group, a single number, a min-max pair
IsMalformedSegment(t) ==
    \/ t = <<>>
    \/ /\ ~IsOtherSegment(t)
       /\ ~IsValidMergedGroup(t)
       /\ ~IsSingleNumber(t)
       /\ ~(~includes(t, "+") /\ HasTwoNumbers(t))

\* C6: every malformed segment, an empty or white-space-only one included,
\* yields no rule, and the rules of the other segments are unaffected;
\* "bad-data, 50" yields the one rule 50mm
C6_MalformedSegmentsDropped ==
    parsedRanges.called =>
        /\ parsedRanges.rules =
               Flatten([i \in 1..Len(TrimmedSegments) |->
                           IF IsMalformedSegment(TrimmedSegments[i]) THEN <<>>
                           ELSE parseFocalLengthRanges(TrimmedSegments[i])])
        /\ focalLengthRanges = BadDataRanges =>
               LabelsOf(parsedRanges.rules) = <<"50mm">>

\* a segment C7 is about: no '+', not "other", not a single number
IsRangeCandidate(t) ==
    ~includes(t, "+") /\ ~IsOtherSegment(t) /\ ~IsSingleNumber(t)

\* the segment split at its first '-' only: min is the text before it, max the
\* whole text after it
SplitAtFirstDash(t) ==
    IF ~includes(t, "-") THEN [min |-> StringToNumber(t), max |-> Undefined]
    ELSE [min |-> StringToNumber(SubSeq(t, 1, IndexOf(t, "-") - 1)),
          max |-> StringToNumber(SubSeq(t, IndexOf(t, "-") + 1, Len(t)))]

\* the range rule C7 expects of a candidate segment, if any
RangeRuleAtFirstDash(t) ==
    LET r == SplitAtFirstDash(t)
    IN  IF r.min.t = "num" /\ r.max.t = "num"
        THEN <<Rule("range", NumberToString(r.min) \o "-" \o NumberToString(r.max) \o "mm",
                    Undefined, <<r>>)>>
        ELSE <<>>

\* C7: a segment without '+' that is not a single number is split at its first
\* '-' into (min, max); it yields a range rule if both parts are numbers and
\* is dropped otherwise, so "24-70-100" and "-5-10" yield no rule
C7_RangeSplitsAtFirstDash ==
    parsedRanges.called =>
        LET IsRange(rule) == rule.type = "range"
        IN  SelectSeq(parsedRanges.rules, IsRange) =
                Flatten([i \in 1..Len(TrimmedSegments) |->
                            IF IsRangeCandidate(TrimmedSegments[i])
                            THEN RangeRuleAtFirstDash(TrimmedSegments[i])
                            ELSE <<>>])

\* the min-max pairs a valid merged group stands for
ExpectedSubRanges(t) ==
    [i \in 1..Len(split(t, "+")) |->
        [min |-> StringToNumber(split(trim(split(t, "+")[i]), "-")[1]),
         max |-> StringToNumber(split(trim(split(t, "+")[i]), "-")[2])]]

\* C8: a segment containing '+' yields a merged rule, covering every one of its
\* parts, if and only if every part gives two numbers; otherwise it yields no
\* rule at all
C8_MergedAllOrNothing ==
    parsedRanges.called =>
        LET IsMerged(rule) == rule.type = "merged"
            merged == SelectSeq(parsedRanges.rules, IsMerged)
            HasPlus(t) == includes(t, "+")
            NoPlus(t) == ~includes(t, "+")
            IsValid(t) == IsValidMergedGroup(t)
        IN  /\ [i \in 1..Len(merged) |-> merged[i].ranges] =
                   [i \in 1..Len(SelectSeq(TrimmedSegments, IsValid)) |->
                       ExpectedSubRanges(SelectSeq(TrimmedSegments, IsValid)[i])]
            /\ Len(parsedRanges.rules) - Len(merged) <= Len(SelectSeq(TrimmedSegments, NoPlus))
            /\ (\A i \in 1..Len(TrimmedSegments) : HasPlus(TrimmedSegments[i])) =>
                   Len(parsedRanges.rules) = Len(SelectSeq(TrimmedSegments, IsValid))

\* a parsed text with a group of which one part gives two numbers and another
\* does not, and a group of which every part does
C8_Witness ==
    /\ parsedRanges.called
    /\ \E i \in 1..Len(TrimmedSegments) :
           LET parts == split(TrimmedSegments[i], "+")
           IN  /\ Len(parts) >= 2
               /\ \E j \in 1..Len(parts) : HasTwoNumbers(trim(parts[j]))
               /\ \E j \in 1..Len(parts) : ~HasTwoNumbers(trim(parts[j]))
    /\ \E i \in 1..Len(TrimmedSegments) : IsValidMergedGroup(TrimmedSegments[i])
    /\ Len(parsedRanges.rules) = 1

-----------------------------------------------------------------------------
(* Charts of focal lengths in range mode *)

\* most photos of the scanned folder
MaxPhotos == 3

\* focal lengths of the scanned photos: absent, NaN, 30, 84.5, 85.4, 85.5, 450
ChartFocalLengths ==
    {Undefined, NaN, Int2Num(30), Dec(845, 1), Dec(854, 1), Dec(855, 1), Int2Num(450)}

\* the photo at position i of the scanned folder: a camera the table does not
\* know, so that the focal length is taken as it is
ChartPhoto(i, focalLength) ==
    Photo(<<"local-photo.jpg", i>>, "Trip",
          [Model |-> "MyCamera", LensModel |-> "MyLens", FocalLength |-> focalLength,
           FocalLengthIn35mmFormat |-> Undefined])

\* range texts in the input when the chart is generated
ChartTexts ==
    { <<"2", "4", "-", "7", "0", ",", " ", "8", "5", ",", " ", "o", "t", "h", "e", "r">>,
      <<"2", "4", "-", "7", "0", ",", "2", "5", "-", "1", "0", "0">>,
      <<"o", "t", "h", "e", "r", ",", "2", "4", "-", "7", "0">>,
      <<"8", "5", ",", "8", "0", "-", "9", "0", ",", "o", "t", "h", "e", "r">>,
      <<"2", "4", "-", "7", "0", ",", " ", "2", "4", "-", "7", "0">>,
      <<"2", "4", "-", "7", "0">>,
      <<"o", "t", "h", "e", "r">>,
      <<"2", "4", "-", "7", "0", ",", " ", "o", "t", "h", "e", "r", ",", " ", "O", "t", "h", "e", "r">>,
      <<>>,
      <<"1", "0", "-", "2", "0", "+", "8", "0", "-", "9", "0", ",", " ", "8", "5">>,
      <<"3", "0", ",", "2", "0", "-", "4", "0", ",", "2", "5", "-", "3", "5", "+", "8", "0", "-", "9", "0">>,
      DefaultRanges }

\* a folder has been scanned, the effects (App.tsx:903-909) and the merge
\* (App.tsx:1094) have selected all of it, the statistics are grouped by focal
\* length and a range text has been typed
InitChart ==
    /\ cropFactors = defaultCropFactors
    /\ localPhotos \in
           UNION {{[i \in 1..n |-> ChartPhoto(i, f[i])] : f \in [1..n -> ChartFocalLengths]} :
                     n \in 1..MaxPhotos}
    /\ equivalents = <<>>
    /\ focalLengthRanges \in ChartTexts
    /\ parsedRanges = NotParsed
    /\ groupBy = "FocalLength"
    /\ focalLengthMode = "range"
    /\ EverythingSelected
    /\ InitialChart
    /\ Settled
    /\ invocation = NoInvocation

\* handleGenerateChart that filters the photo list in place
handleGenerateChart_InPlace ==
    /\ localPhotos' = FilteredPhotos
    /\ chartData' =
           IF selectedModels = {} \/ selectedLenses = {} THEN NothingSelectedChart
           ELSE IF groupBy = "FocalLength" /\ focalLengthMode = "range"
           THEN RangeChart(FilteredPhotos, focalLengthRanges, cropFactors)
           ELSE IF groupBy = "FocalLength"
           THEN ContinuousChart(NumericFocalLengths(FilteredPhotos, cropFactors))
           ELSE AttributeChart(FilteredPhotos, groupBy)
    /\ UNCHANGED <<cropFactors, equivalents, focalLengthRanges, parsedRanges, settings,
                   topFocalLengthLabels, allFolderPaths, debounce, invocation>>

\* App.tsx:1188-1293
handleGenerateChart ==
    /\ IF selectedModels = {} \/ selectedLenses = {}
       THEN /\ chartData' = NothingSelectedChart
            /\ UNCHANGED <<equivalents, parsedRanges, topFocalLengthLabels>>
       ELSE IF groupBy = "FocalLength" /\ focalLengthMode = "range"
       THEN /\ chartData' = RangeChart(FilteredPhotos, focalLengthRanges, cropFactors)
            /\ parsedRanges' =
                   [called |-> TRUE, rules |-> parseFocalLengthRanges(focalLengthRanges)]
            /\ equivalents' = [i \in 1..Len(FilteredPhotos) |->
                                  getEquivalentFocalLength(FilteredPhotos[i], cropFactors)]
            /\ UNCHANGED topFocalLengthLabels
       ELSE IF groupBy = "FocalLength"
       THEN /\ chartData' = ContinuousChart(NumericFocalLengths(FilteredPhotos, cropFactors))
            /\ topFocalLengthLabels' \in
                   ContinuousTop(NumericFocalLengths(FilteredPhotos, cropFactors),
                                 topFocalLengthLabels)
            /\ equivalents' = [i \in 1..Len(FilteredPhotos) |->
                                  getEquivalentFocalLength(FilteredPhotos[i], cropFactors)]
            /\ UNCHANGED parsedRanges
       ELSE /\ chartData' = AttributeChart(FilteredPhotos, groupBy)
            /\ topFocalLengthLabels' = <<>>
            /\ equivalents' = <<>>
            /\ UNCHANGED parsedRanges
    /\ UNCHANGED <<cropFactors, localPhotos, focalLengthRanges, settings>>
    /\ UNCHANGED <<allFolderPaths, debounce, invocation>>

NextChart == handleGenerateChart

SpecChart == InitChart /\ [][NextChart]_vars

-----------------------------------------------------------------------------
(* Charts of focal lengths in both modes *)

\* focal lengths of the scanned photos: absent, NaN, 24, 25.4, 25.5, 26
HistogramFocalLengths ==
    {Undefined, NaN, Int2Num(24), Dec(254, 1), Dec(255, 1), Int2Num(26)}

\* the photos of a list of focal lengths
PhotosOf(focalLengths) == [i \in 1..Len(focalLengths) |-> ChartPhoto(i, focalLengths[i])]

\* the focal lengths 24, 24, 30, 50
ExampleFocalLengths == <<Int2Num(24), Int2Num(24), Int2Num(30), Int2Num(50)>>

\* a folder has been scanned and everything is selected; the statistics are
\* grouped by focal length in either mode, under the initial range text
InitHistogram ==
    /\ cropFactors = defaultCropFactors
    /\ localPhotos \in
           {PhotosOf(ExampleFocalLengths)} \cup
           UNION {{PhotosOf(f) : f \in [1..n -> HistogramFocalLengths]} : n \in 1..MaxPhotos}
    /\ equivalents = <<>>
    /\ focalLengthRanges = DefaultRanges
    /\ parsedRanges = NotParsed
    /\ groupBy = "FocalLength"
    /\ focalLengthMode \in {"range", "continuous"}
    /\ EverythingSelected
    /\ InitialChart
    /\ Settled
    /\ invocation = NoInvocation

\* the mode buttons (App.tsx:1370-1381), shown when grouping by focal length
setFocalLengthMode(mode) ==
    /\ groupBy = "FocalLength"
    /\ mode # focalLengthMode
    /\ focalLengthMode' = mode
    /\ equivalents' = <<>>
    /\ parsedRanges' = NotParsed
    /\ UNCHANGED <<cropFactors, localPhotos, focalLengthRanges, groupBy, selectedModels,
                   selectedLenses, selectedFolderPaths, chart>>
    /\ UNCHANGED <<allFolderPaths, debounce, invocation>>

NextHistogram ==
    \/ handleGenerateChart
    \/ \E mode \in {"range", "continuous"} : setFocalLengthMode(mode)

SpecHistogram == InitHistogram /\ [][NextHistogram]_vars

-----------------------------------------------------------------------------
(* Claims about the range-mode counts *)

\* the regular (non-other) rules of the pass, in text order
RegularRules ==
    LET IsRegular(r) == r.type # "other" IN SelectSeq(parsedRanges.rules, IsRegular)

\* the pass has an other rule
HasOtherRule == \E i \in 1..Len(parsedRanges.rules) : parsedRanges.rules[i].type = "other"

\* regular rule j is the first one, in text order, whose predicate accepts fl
IsFirstMatch(j, fl) ==
    /\ Test(RegularRules[j], fl)
    /\ \A k \in 1..(j - 1) : ~Test(RegularRules[k], fl)

\* the photos of the pass with a numeric focal length that some regular rule accepts
MatchedPhotos ==
    {k \in DOMAIN equivalents :
        IsNumber(equivalents[k]) /\ \E j \in 1..Len(RegularRules) : Test(RegularRules[j], equivalents[k])}

\* the photos of the pass with a numeric focal length that no regular rule accepts
UnmatchedPhotos ==
    {k \in DOMAIN equivalents :
        IsNumber(equivalents[k]) /\ \A j \in 1..Len(RegularRules) : ~Test(RegularRules[j], equivalents[k])}

\* the pass has run on the present text and produced a chart
RangeChartShown == parsedRanges.called /\ chartData.kind = "chart"

\* the count the chart shows for a label
ShownCount(label) ==
    chartData.data[CHOOSE i \in DOMAIN chartData.labels : chartData.labels[i] = label]

RECURSIVE SumOfShownCounts(_)
SumOfShownCounts(labelSet) ==
    IF labelSet = {} THEN 0
    ELSE LET l == CHOOSE x \in labelSet : TRUE
         IN  ShownCount(l) + SumOfShownCounts(labelSet \ {l})

\* C9: first match wins.  The count of every regular rule's label is the number
\* of photos whose first accepting regular rule, in text order, bears that
\* label: a focal length that several rules accept is counted for the first
\* one alone
C9_FirstMatchWins ==
    RangeChartShown =>
        /\ \A j \in 1..Len(RegularRules) : RegularRules[j].label \in Range(chartData.labels)
        /\ \A i \in DOMAIN chartData.labels :
               chartData.labels[i] # "Other" =>
                   chartData.data[i] =
                       Cardinality({k \in MatchedPhotos :
                           \E j \in 1..Len(RegularRules) :
                               /\ RegularRules[j].label = chartData.labels[i]
                               /\ IsFirstMatch(j, equivalents[k])})

\* a focal length accepted by two rules of different labels, counted for the
\* first and not for the second
C9_Witness ==
    /\ RangeChartShown
    /\ \E k \in DOMAIN equivalents, j1, j2 \in 1..Len(RegularRules) :
           /\ j1 < j2
           /\ RegularRules[j1].label # RegularRules[j2].label
           /\ Test(RegularRules[j1], equivalents[k])
           /\ Test(RegularRules[j2], equivalents[k])
           /\ ShownCount(RegularRules[j1].label) = 1
           /\ ShownCount(RegularRules[j2].label) = 0

\* C10: a numeric focal length that no regular rule accepts is counted under
\* Other if the text has an other rule, wherever it stands, and nowhere if it
\* has none; a focal length that a regular rule accepts is never counted
\* under Other
C10_OtherFallback ==
    RangeChartShown =>
        /\ (HasOtherRule /\ UnmatchedPhotos # {}) =>
               /\ "Other" \in Range(chartData.labels)
               /\ \A i \in DOMAIN chartData.labels :
                      chartData.labels[i] = "Other" =>
                          chartData.data[i] = Cardinality(UnmatchedPhotos)
        /\ ~HasOtherRule => "Other" \notin Range(chartData.labels)
        /\ SumOfShownCounts(Range(chartData.labels) \ {"Other"}) = Cardinality(MatchedPhotos)

\* an other rule that is not the last rule of the text, with one photo counted
\* under it and another under a regular rule
C10_Witness ==
    /\ RangeChartShown
    /\ Len(parsedRanges.rules) >= 2
    /\ parsedRanges.rules[1].type = "other"
    /\ Cardinality(UnmatchedPhotos) = 1
    /\ Cardinality(MatchedPhotos) >= 1
    /\ ShownCount("Other") = 1

WithoutOther(labels) ==
    LET NotOtherLabel(l) == l # "Other" IN SelectSeq(labels, NotOtherLabel)

\* C11: the labels of a range-mode chart are the labels of the parsed rules in
\* the order of the text, whatever the counts; the label "Other" is left out
\* exactly when the text has an other rule and no photo falls to it; a regular
\* rule's label is shown also when no photo falls to it
C11_LabelsInRuleOrder ==
    RangeChartShown =>
        /\ chartData.labels =
               IF HasOtherRule /\ UnmatchedPhotos = {}
               THEN WithoutOther(LabelsOf(parsedRanges.rules))
               ELSE LabelsOf(parsedRanges.rules)
        /\ WithoutOther(chartData.labels) = LabelsOf(RegularRules)
        /\ ("Other" \in Range(chartData.labels)) <=> (HasOtherRule /\ UnmatchedPhotos # {})

\* a later rule has the larger count and an earlier regular rule the count 0,
\* and both are shown in the order of the text, the empty Other is not
C11_Witness ==
    /\ RangeChartShown
    /\ HasOtherRule
    /\ "Other" \notin Range(chartData.labels)
    /\ Len(chartData.labels) >= 2
    /\ chartData.data[1] = 0
    /\ chartData.data[2] >= 2

\* C12: however many times the text names other, the chart has at most one
\* entry labelled "Other" and its counts add up to the number of photos with a
\* numeric focal length
C12_AtMostOneOther ==
    (RangeChartShown /\ HasOtherRule) =>
        /\ Cardinality({i \in DOMAIN chartData.labels : chartData.labels[i] = "Other"}) <= 1
        /\ (\A i, j \in DOMAIN chartData.labels :
                chartData.labels[i] = chartData.labels[j] => i = j) =>
               SumOfShownCounts(Range(chartData.labels)) =
                   Cardinality(MatchedPhotos) + Cardinality(UnmatchedPhotos)

\* C13: a single rule accepts a focal length exactly when the integer nearest
\* to it (the upper one on a tie) is the rule's value; under the text
\* "24-70, 85, other" the count of "85mm" is the number of photos from 84.5 up
\* to, not including, 85.5
C13_SingleMatchesRounded ==
    RangeChartShown =>
        /\ \A j \in 1..Len(RegularRules), k \in DOMAIN equivalents :
               (RegularRules[j].type = "single" /\ IsNumber(equivalents[k])) =>
                   (Test(RegularRules[j], equivalents[k])
                        <=> IsNearestInteger(RegularRules[j].value, equivalents[k]))
        /\ LabelsOf(RegularRules) = <<"24-70mm", "85mm">> =>
               ShownCount("85mm") =
                   Cardinality({k \in DOMAIN equivalents :
                       /\ NumLE(Dec(845, 1), equivalents[k])
                       /\ ~NumLE(Dec(855, 1), equivalents[k])
                       /\ equivalents[k].t = "num"})

\* 84.5 and 85.4 are both counted under "85mm", 85.5 is not
C13_Witness ==
    /\ RangeChartShown
    /\ LabelsOf(RegularRules) = <<"24-70mm", "85mm">>
    /\ Dec(845, 1) \in Range(equivalents)
    /\ Dec(854, 1) \in Range(equivalents)
    /\ Dec(855, 1) \in Range(equivalents)
    /\ ShownCount("85mm") = 2

-----------------------------------------------------------------------------
(* Claims about photos without a focal length *)

\* the photos of the pass whose equivalent focal length is absent
AbsentPhotos == {k \in DOMAIN equivalents : equivalents[k] = Undefined}

IsPresent(focalLength) == focalLength # Undefined

\* C14: a photo whose equivalent focal length is absent is left out in both
\* modes.  In range mode, under the initial text (which has an other rule and
\* no two equal labels), the counts shown add up to the number of the other
\* photos; in continuous mode the chart is the chart of the other photos alone,
\* has no bucket named after the absent value, and is the no-chart result when
\* every photo is without a focal length; in both modes the pass completes
C14_AbsentExcluded ==
    equivalents # <<>> =>
        /\ focalLengthMode = "range" =>
               /\ chartData.kind = "chart"
               /\ SumOfShownCounts(Range(chartData.labels)) =
                      Len(equivalents) - Cardinality(AbsentPhotos)
        /\ focalLengthMode = "continuous" =>
               /\ chartData = ContinuousChart(SelectSeq(equivalents, IsPresent))
               /\ "undefined" \notin Range(chartData.labels)
               /\ chartData.kind = (IF AbsentPhotos = DOMAIN equivalents THEN "null" ELSE "chart")

\* a range-mode pass, after a continuous-mode pass, over photos with and
\* without a focal length
C14_Witness ==
    /\ equivalents # <<>>
    /\ focalLengthMode = "range"
    /\ topFocalLengthLabels # <<>>
    /\ AbsentPhotos # {}
    /\ AbsentPhotos # DOMAIN equivalents
    /\ chartData.kind = "chart"

-----------------------------------------------------------------------------
(* Claims about continuous mode *)

\* the focal lengths continuous mode has counted
NumericEquivalents == SelectSeq(equivalents, IsNumber)

\* a continuous-mode pass has run on the present photos
ContinuousPassDone == focalLengthMode = "continuous" /\ equivalents # <<>>

\* a continuous-mode pass over focal lengths that are all numbers, and not all
\* absent, has run
HistogramShown ==
    /\ ContinuousPassDone
    /\ NumericEquivalents # <<>>
    /\ \A i \in 1..Len(NumericEquivalents) : NumericEquivalents[i].t = "num"

\* the integer nearest to a focal length of the pools
Rounded(x) == CHOOSE n \in 0..(MaxBucket + 1) : IsNearestInteger(Int2Num(n), x)

RoundedValues == {Rounded(NumericEquivalents[i]) : i \in 1..Len(NumericEquivalents)}

MinRounded == CHOOSE n \in RoundedValues : \A m \in RoundedValues : n <= m

MaxRounded == CHOOSE n \in RoundedValues : \A m \in RoundedValues : m <= n

\* the number of counted focal lengths whose nearest integer is n
TrueCount(n) ==
    Cardinality({i \in 1..Len(NumericEquivalents) : Rounded(NumericEquivalents[i]) = n})

\* C15: the labels of a continuous-mode chart are the decimal strings of the
\* integers from the least to the greatest rounded focal length, ascending
C15_BucketsFromRoundedMinToMax ==
    HistogramShown =>
        chartData.labels =
            [i \in 1..(MaxRounded - MinRounded + 1) |-> NatToString(MinRounded + i - 1)]

\* C16: the count of every bucket of a continuous-mode chart is a
\* non-negative integer, the number of focal lengths whose rounded value is
\* the bucket, and the counts add up to the number of focal lengths; the focal
\* lengths 24, 24, 30, 50 give 27 buckets with 24: 2, 30: 1, 50: 1
C16_CountsOfRoundedValues ==
    HistogramShown =>
        /\ \A i \in DOMAIN chartData.labels :
               /\ chartData.data[i] >= 0
               /\ \E n \in MinRounded..MaxRounded :
                      /\ NatToString(n) = chartData.labels[i]
                      /\ chartData.data[i] = TrueCount(n)
        /\ \A n \in RoundedValues : NatToString(n) \in Range(chartData.labels)
        /\ SumOfShownCounts(Range(chartData.labels)) = Len(NumericEquivalents)
        /\ NumericEquivalents = ExampleFocalLengths =>
               /\ Len(chartData.labels) = 27
               /\ ShownCount("24") = 2 /\ ShownCount("30") = 1 /\ ShownCount("50") = 1

\* bucket a comes before bucket b in the ranking: the larger count, and the
\* earlier bucket on equal counts
RankedBefore(a, b) == TrueCount(a) > TrueCount(b) \/ (TrueCount(a) = TrueCount(b) /\ a < b)

\* the label of the bucket at position k of the ranking
RankedLabel(k) ==
    NatToString(CHOOSE a \in MinRounded..MaxRounded :
                    Cardinality({b \in MinRounded..MaxRounded : RankedBefore(b, a)}) = k - 1)

\* C17: the top labels of continuous mode are the three buckets (all of them
\* if there are fewer) of the highest counts, by descending count and, for
\* equal counts, in the order of the buckets; the chart itself is the chart of
\* the focal lengths, whatever the top labels are
C17_TopThreeByCount ==
    HistogramShown =>
        /\ topFocalLengthLabels =
               [k \in 1..Min(3, MaxRounded - MinRounded + 1) |-> RankedLabel(k)]
        /\ chartData = ContinuousChart(NumericEquivalents)

\* C18: when no photo of a continuous-mode pass has a numeric focal length,
\* chartData is null, and it is null in no other case: a chart has one bucket
\* at least
C18_EmptyIsNoChart ==
    ContinuousPassDone =>
        /\ NumericEquivalents = <<>> => chartData = NoChart
        /\ NumericEquivalents # <<>> => (chartData.kind = "chart" /\ chartData.labels # <<>>)

\* a continuous-mode pass over photos that are all without a focal length
C18_Witness ==
    /\ ContinuousPassDone
    /\ Len(equivalents) >= 2
    /\ NumericEquivalents = <<>>
    /\ chartData = NoChart

-----------------------------------------------------------------------------
(* Charts of camera models and lens models *)

\* camera models of the scanned photos: a name, a name made of digits (the
\* Nokia 6300 reports it), none
AggregateModels == {"MyCamera", "6300", NoString}

\* lens models of the scanned photos: a name, none, the empty string
AggregateLenses == {"MyLens", NoString, ""}

\* the photo at position i of the scanned folder
AggregatePhoto(i, model, lens) ==
    Photo(<<"local-photo.jpg", i>>, "Trip",
          [Model |-> model, LensModel |-> lens, FocalLength |-> Undefined,
           FocalLengthIn35mmFormat |-> Undefined])

\* a folder has been scanned and everything is selected; the statistics are
\* grouped by camera model or by lens model
InitAggregate ==
    /\ cropFactors = defaultCropFactors
    /\ localPhotos \in
           UNION {{[i \in 1..n |-> AggregatePhoto(i, a[i][1], a[i][2])] :
                      a \in [1..n -> AggregateModels \X AggregateLenses]} : n \in 1..MaxPhotos}
    /\ equivalents = <<>>
    /\ focalLengthRanges = DefaultRanges
    /\ parsedRanges = NotParsed
    /\ groupBy \in {"Model", "LensModel"}
    /\ focalLengthMode = "range"
    /\ EverythingSelected
    /\ InitialChart
    /\ Settled
    /\ invocation = NoInvocation

NextAggregate == handleGenerateChart

SpecAggregate == InitAggregate /\ [][NextAggregate]_vars

-----------------------------------------------------------------------------
(* Claims about attribute aggregation *)

\* an aggregation has run and produced a chart
AggregateShown == groupBy \in {"Model", "LensModel"} /\ chartData.kind = "chart"

\* the value a photo is grouped under
GroupOf(photo) ==
    LET value == IF groupBy = "Model" THEN photo.exif.Model ELSE photo.exif.LensModel
    IN  IF value = NoString \/ value = "" THEN "Unknown" ELSE value

\* the aggregated photos grouped under a label
PhotosUnder(label) == {k \in DOMAIN FilteredPhotos : GroupOf(FilteredPhotos[k]) = label}

\* C19: every aggregated photo is counted once, under its attribute value or
\* under "Unknown" when the value is missing or empty: each label is shown
\* once with the number of photos grouped under it, every photo's group is
\* shown, and the counts add up to the number of photos
C19_GroupedByValue ==
    AggregateShown =>
        /\ \A i, j \in DOMAIN chartData.labels :
               chartData.labels[i] = chartData.labels[j] => i = j
        /\ \A i \in DOMAIN chartData.labels :
               chartData.data[i] = Cardinality(PhotosUnder(chartData.labels[i]))
        /\ \A k \in DOMAIN FilteredPhotos : GroupOf(FilteredPhotos[k]) \in Range(chartData.labels)
        /\ SumOfShownCounts(Range(chartData.labels)) = Len(FilteredPhotos)

\* photos without a lens model and with the empty lens model are counted
\* together under "Unknown", beside a named lens
C19_Witness ==
    /\ AggregateShown
    /\ groupBy = "LensModel"
    /\ \E k \in DOMAIN FilteredPhotos : FilteredPhotos[k].exif.LensModel = NoString
    /\ \E k \in DOMAIN FilteredPhotos : FilteredPhotos[k].exif.LensModel = ""
    /\ "Unknown" \in Range(chartData.labels)
    /\ ShownCount("Unknown") = 2
    /\ "MyLens" \in Range(chartData.labels)

\* the position of the first aggregated photo grouped under a label
FirstAppearance(label) ==
    CHOOSE k \in PhotosUnder(label) : \A m \in PhotosUnder(label) : k <= m

\* C20: the labels of an aggregation are in descending order of count, and
\* labels of equal counts in the order in which their values first appear
\* among the photos
C20_DescendingCountThenFirstSeen ==
    AggregateShown =>
        \A i, j \in DOMAIN chartData.labels :
            i < j =>
                \/ chartData.data[i] > chartData.data[j]
                \/ /\ chartData.data[i] = chartData.data[j]
                   /\ FirstAppearance(chartData.labels[i]) < FirstAppearance(chartData.labels[j])

-----------------------------------------------------------------------------
(* Events with the effects they set off *)

\* the values a run of handleGenerateChart reads (the dependencies of the
\* effect at App.tsx:920-934, with the text in place of its debounced copy)
Inputs ==
    [localPhotos |-> localPhotos, cropFactors |-> cropFactors,
     focalLengthRanges |-> focalLengthRanges, groupBy |-> groupBy,
     focalLengthMode |-> focalLengthMode, selectedModels |-> selectedModels,
     selectedLenses |-> selectedLenses, selectedFolderPaths |-> selectedFolderPaths]

\* filteredPhotos (App.tsx:1189-1191 and 1207-1214) of given inputs
FilteredOf(in) ==
    LET Matches(photo) ==
            /\ photo.folderPath \in in.selectedFolderPaths
            /\ ModelOrEmpty(photo) \in in.selectedModels
            /\ photo.exif.LensModel \in {NoString, ""}
                   \/ photo.exif.LensModel \in in.selectedLenses
    IN  SelectSeq(in.localPhotos, Matches)

\* App.tsx:1193: nothing is selected
NothingSelected(in) == in.selectedModels = {} \/ in.selectedLenses = {}

\* what handleGenerateChart (App.tsx:1188-1293) leaves in chartData
GeneratedChart(in, filteredPhotos) ==
    IF NothingSelected(in) THEN NothingSelectedChart
    ELSE IF in.groupBy = "FocalLength" /\ in.focalLengthMode = "range"
    THEN RangeChart(filteredPhotos, in.focalLengthRanges, in.cropFactors)
    ELSE IF in.groupBy = "FocalLength"
    THEN ContinuousChart(NumericFocalLengths(filteredPhotos, in.cropFactors))
    ELSE AttributeChart(filteredPhotos, in.groupBy)

\* what handleGenerateChart may leave in topFocalLengthLabels
GeneratedTop(in, filteredPhotos, previous) ==
    IF NothingSelected(in) THEN {previous}
    ELSE IF in.groupBy = "FocalLength" /\ in.focalLengthMode = "range" THEN {previous}
    ELSE IF in.groupBy = "FocalLength"
    THEN ContinuousTop(NumericFocalLengths(filteredPhotos, in.cropFactors), previous)
    ELSE {<<>>}

\* the focal lengths handleGenerateChart resolves
GeneratedEquivalents(in, filteredPhotos, previous) ==
    IF NothingSelected(in) THEN previous
    ELSE IF in.groupBy = "FocalLength"
    THEN [i \in 1..Len(filteredPhotos) |->
             getEquivalentFocalLength(filteredPhotos[i], in.cropFactors)]
    ELSE <<>>

\* the rules handleGenerateChart parses
GeneratedParsedRanges(in, previous) ==
    IF NothingSelected(in) THEN previous
    ELSE IF in.groupBy = "FocalLength" /\ in.focalLengthMode = "range"
    THEN [called |-> TRUE, rules |-> parseFocalLengthRanges(in.focalLengthRanges)]
    ELSE previous

\* a run of handleGenerateChart on given inputs
Generated(in, filteredPhotos) ==
    /\ chartData' = GeneratedChart(in, filteredPhotos)
    /\ equivalents' = GeneratedEquivalents(in, filteredPhotos, equivalents)
    /\ parsedRanges' = GeneratedParsedRanges(in, parsedRanges)
    /\ topFocalLengthLabels' \in GeneratedTop(in, filteredPhotos, topFocalLengthLabels)

\* the effect at App.tsx:920-934, run on the values an event leaves behind:
\* with photos loaded it calls handleGenerateChart
Regenerated(in) ==
    IF in.localPhotos = <<>>
    THEN UNCHANGED <<chart, equivalents, parsedRanges>>
    ELSE \E filteredPhotos \in {FilteredOf(in)} : Generated(in, filteredPhotos)

\* the effect at App.tsx:920-934 running once more on the same values
RegenerateEffect ==
    /\ localPhotos # <<>>
    /\ handleGenerateChart

-----------------------------------------------------------------------------
(* Folder selections *)

\* a file found by a scan: the id is made of the file's name and modification
\* time (App.tsx:981, 1031)
ScannedPhoto(name, lastModified, folderPath, model, lens, focalLength) ==
    Photo("local-" \o name \o "-" \o lastModified, folderPath,
          [Model |-> model, LensModel |-> lens, FocalLength |-> focalLength,
           FocalLengthIn35mmFormat |-> Undefined])

TripPhoto == ScannedPhoto("a.jpg", "1", "Trip", "MyCamera", "MyLens", Int2Num(30))

\* a copy of TripPhoto in a subfolder, with the name and modification time kept
CopiedPhoto == ScannedPhoto("a.jpg", "1", "Trip/Copy", "MyCamera", "MyLens", Int2Num(30))

\* a photo of another camera that reports no lens model
LenslessPhoto ==
    ScannedPhoto("b.jpg", "2", "Trip/Day2", "OtherCamera", NoString, Int2Num(32))

\* what the scan of a chosen folder may return (newPhotos at App.tsx:1084 and
\* 1045): one subfolder, the whole tree, or nothing that could be parsed
Scans ==
    { <<TripPhoto>>, <<LenslessPhoto>>, <<TripPhoto, LenslessPhoto, CopiedPhoto>>, <<>> }

\* uniqueNewPhotos (App.tsx:1088-1089)
UniqueNewPhotos(prevPhotos, newPhotos) ==
    LET IsNew(p) == \A i \in 1..Len(prevPhotos) : prevPhotos[i].id # p.id
    IN  SelectSeq(newPhotos, IsNew)

\* combinedPhotos (App.tsx:1090)
CombinedPhotos(prevPhotos, newPhotos) ==
    prevPhotos \o UniqueNewPhotos(prevPhotos, newPhotos)

\* newPaths taken from every scanned photo, loaded before or not
NewPaths_OfAllScanned(prevPhotos, newPhotos) ==
    {p.folderPath : p \in Range(newPhotos)}

\* newPaths (App.tsx:1093)
NewPaths(prevPhotos, newPhotos) ==
    {p.folderPath : p \in Range(UniqueNewPhotos(prevPhotos, newPhotos))}

\* the names of a list of photos that filter(Boolean) keeps (App.tsx:893-901)
NamesOf(photos, attribute) ==
    {AttributeOf(p, attribute) : p \in Range(photos)} \ {NoString, ""}

\* the scan merged without the selection of every model and lens
Merged_NoReselect(newPhotos) ==
    [Inputs EXCEPT
        !.localPhotos = CombinedPhotos(localPhotos, newPhotos),
        !.selectedFolderPaths = selectedFolderPaths \cup NewPaths(localPhotos, newPhotos)]

\* the values left by the merge (App.tsx:1087-1096) and by the effects that
\* the new photos set off (App.tsx:903-909): every model and lens is selected
Merged(newPhotos) ==
    [Inputs EXCEPT
        !.localPhotos = CombinedPhotos(localPhotos, newPhotos),
        !.selectedFolderPaths = selectedFolderPaths \cup NewPaths(localPhotos, newPhotos),
        !.selectedModels = NamesOf(CombinedPhotos(localPhotos, newPhotos), "Model"),
        !.selectedLenses = NamesOf(CombinedPhotos(localPhotos, newPhotos), "LensModel")]

\* an event leaves the given values in the inputs of the chart
Becomes(in) ==
    /\ localPhotos' = in.localPhotos
    /\ cropFactors' = in.cropFactors
    /\ focalLengthRanges' = in.focalLengthRanges
    /\ groupBy' = in.groupBy
    /\ focalLengthMode' = in.focalLengthMode
    /\ selectedModels' = in.selectedModels
    /\ selectedLenses' = in.selectedLenses
    /\ selectedFolderPaths' = in.selectedFolderPaths

\* App.tsx:1066-1113 and 1000-1063: a folder is chosen, scanned and merged
\* (both handlers merge alike), and the effects run
handleLocalFolderSelect(newPhotos) ==
    \E in \in {Merged(newPhotos)} :
        /\ Becomes(in)
        /\ allFolderPaths' = {p.folderPath : p \in Range(in.localPhotos)}
        /\ UNCHANGED <<debounce, invocation>>
        /\ Regenerated(in)

\* FilterGroup (Sidebar.tsx:11-16): what a click in a list of checkboxes may
\* pass to onChange
Clicks(items, selectedItems) ==
    {items, {}} \cup {selectedItems \cup {item} : item \in items \ selectedItems}
                \cup {selectedItems \ {item} : item \in items \cap selectedItems}

\* onFolderChange (App.tsx:1338)
onFolderChange(selected) ==
    \E in \in {[Inputs EXCEPT !.selectedFolderPaths = selected]} :
        /\ Becomes(in)
        /\ UNCHANGED <<allFolderPaths, debounce, invocation>>
        /\ Regenerated(in)

\* onModelChange (App.tsx:1341)
onModelChange(selected) ==
    \E in \in {[Inputs EXCEPT !.selectedModels = selected]} :
        /\ Becomes(in)
        /\ UNCHANGED <<allFolderPaths, debounce, invocation>>
        /\ Regenerated(in)

\* onLensChange (App.tsx:1344)
onLensChange(selected) ==
    \E in \in {[Inputs EXCEPT !.selectedLenses = selected]} :
        /\ Becomes(in)
        /\ UNCHANGED <<allFolderPaths, debounce, invocation>>
        /\ Regenerated(in)

\* the application after construction, with the grouping and the mode chosen
\* before any folder
InitScan ==
    /\ cropFactors = defaultCropFactors
    /\ localPhotos = <<>>
    /\ equivalents = <<>>
    /\ focalLengthRanges = DefaultRanges
    /\ parsedRanges = NotParsed
    /\ groupBy \in {"Model", "LensModel", "FocalLength"}
    /\ focalLengthMode \in {"range", "continuous"}
    /\ selectedModels = {}
    /\ selectedLenses = {}
    /\ selectedFolderPaths = {}
    /\ InitialChart
    /\ Settled
    /\ invocation = NoInvocation

NextScan ==
    \/ \E newPhotos \in Scans : handleLocalFolderSelect(newPhotos)
    \/ \E selected \in Clicks(allFolderPaths, selectedFolderPaths) : onFolderChange(selected)
    \/ \E selected \in Clicks(availableModels, selectedModels) : onModelChange(selected)
    \/ \E selected \in Clicks(availableLenses, selectedLenses) : onLensChange(selected)
    \/ RegenerateEffect

SpecScan == InitScan /\ [][NextScan]_vars

-----------------------------------------------------------------------------
(* The debounced range text *)

\* texts typed into the range input
DebounceTexts ==
    { DefaultRanges, <<"2", "4", "-", "7", "0">>, <<"3", "2">> }

\* the photos loaded while the text is edited
DebouncePhotos == <<TripPhoto, LenslessPhoto>>

\* the application after a folder selection and its effects: everything is
\* selected and charted (App.tsx:903-934)
InitDebounce ==
    /\ cropFactors = defaultCropFactors
    /\ localPhotos = DebouncePhotos
    /\ focalLengthRanges = DefaultRanges
    /\ groupBy = "FocalLength"
    /\ focalLengthMode = "range"
    /\ EverythingSelected
    /\ Settled
    /\ invocation = NoInvocation
    /\ chartData = GeneratedChart(Inputs, FilteredOf(Inputs))
    /\ equivalents = GeneratedEquivalents(Inputs, FilteredOf(Inputs), <<>>)
    /\ parsedRanges = GeneratedParsedRanges(Inputs, NotParsed)
    /\ topFocalLengthLabels = <<>>

\* App.tsx:1391: the input, shown in range mode only (1386), reports a changed
\* text; the debounce effect (911-918) clears the timer and sets a new one
RangeTextEdited(text) ==
    /\ groupBy = "FocalLength"
    /\ focalLengthMode = "range"
    /\ text # focalLengthRanges
    /\ setFocalLengthRanges(text)

\* App.tsx:912-914: the timer fires and stores the text; a stored value equal
\* to the state leaves the component as it is, a changed one runs the effect
\* at 920-934, whose handleGenerateChart reads focalLengthRanges (1222)
TimerExpires ==
    /\ timerPending
    /\ timerPending' = FALSE
    /\ debouncedFocalLengthRanges' = focalLengthRanges
    /\ UNCHANGED <<cropFactors, localPhotos, focalLengthRanges, settings, allFolderPaths,
                   invocation>>
    /\ IF debouncedFocalLengthRanges # focalLengthRanges
       THEN Regenerated(Inputs)
       ELSE UNCHANGED <<chart, equivalents, parsedRanges>>

\* App.tsx:936-942 with the effect at 920-934 that the new table sets off
CropFactorEdited(model, factorStr) ==
    \E in \in {[Inputs EXCEPT
                    !.cropFactors = Spread(cropFactors, model, CoercedFactor(factorStr))]} :
        /\ Becomes(in)
        /\ UNCHANGED <<allFolderPaths, debounce, invocation>>
        /\ Regenerated(in)

\* App.tsx:1370-1381: a mode button is clicked; a changed mode runs the effect
ModeClicked(mode) ==
    /\ groupBy = "FocalLength"
    /\ mode # focalLengthMode
    /\ \E in \in {[Inputs EXCEPT !.focalLengthMode = mode]} :
           /\ Becomes(in)
           /\ UNCHANGED <<allFolderPaths, debounce, invocation>>
           /\ Regenerated(in)

\* App.tsx:1355: another grouping is chosen and the effect runs
GroupBySelected(attribute) ==
    /\ attribute # groupBy
    /\ \E in \in {[Inputs EXCEPT !.groupBy = attribute]} :
           /\ Becomes(in)
           /\ UNCHANGED <<allFolderPaths, debounce, invocation>>
           /\ Regenerated(in)

NextDebounce ==
    \/ \E text \in DebounceTexts : RangeTextEdited(text)
    \/ TimerExpires
    \/ CropFactorEdited("MyCamera", <<"1", ".", "5">>)
    \/ \E mode \in {"range", "continuous"} : ModeClicked(mode)
    \/ \E attribute \in {"Model", "FocalLength"} : GroupBySelected(attribute)

SpecDebounce == InitDebounce /\ [][NextDebounce]_vars

-----------------------------------------------------------------------------
(* The Synology handler (api/synology.ts) *)

\* request methods
Methods == {"GET", "POST", "PUT"}

\* request bodies: a parameter is given, empty or missing
Bodies ==
    [host : {"https://nas", "http://nas:5000", "", NoString}, account : {"me", NoString},
     password : {"pw", NoString}, albumId : {"7", ""}]

\* !value of a parameter
Falsy(value) == value \in {"", NoString}

\* session ids a login may return
Sids == {"sid1", "sid2"}

\* item lists an album may hold
Lists == {<<>>, <<"IMG_1.jpg">>}

\* what the awaited login (synology.ts:55-62) may come to: the fetch or the
\* parsing of its answer rejects, success is false, the answer carries no
\* sid, or it carries one
LoginOutcomes ==
    {[kind |-> k, sid |-> ""] : k \in {"rejects", "failure", "no sid"}}
        \cup {[kind |-> "ok", sid |-> sid] : sid \in Sids}

\* what the awaited listing (synology.ts:66-72) may come to
ListOutcomes ==
    {[kind |-> k, list |-> <<>>] : k \in {"rejects", "failure"}}
        \cup {[kind |-> "ok", list |-> list] : list \in Lists}

\* fetch(url): the request is sent with the session id the handler holds
Fetch(inv, api, pc) ==
    [inv EXCEPT !.fetches = Append(@, [api |-> api, sid |-> inv.sid, result |-> "pending"]),
                !.pc = pc]

\* the awaited fetch has come to a result
Settle(inv, result) ==
    [inv EXCEPT !.fetches[Len(inv.fetches)].result = result]

\* res.status(status).json(body)
Respond(inv, status, body) ==
    [inv EXCEPT !.responses = Append(@, [status |-> status, body |-> body]), !.pc = "done"]

\* the catch block that answers without a logout
Catch_NoLogout(inv, message) ==
    Respond(inv, 500, message)

\* synology.ts:79-86: the catch block up to its first await or its answer
Catch(inv, message) ==
    IF inv.sid # ""
    THEN Fetch([inv EXCEPT !.error = message], "logout", "catch logout")
    ELSE Respond(inv, 500, message)

\* the variables of the application, which the handler does not touch
application ==
    <<cropFactors, localPhotos, equivalents, focalLengthRanges, parsedRanges, settings,
      chart, allFolderPaths, debounce>>

\* synology.ts:41-55: a request arrives; the handler runs to its first await
handler(method, body) ==
    /\ invocation.pc = "idle"
    /\ invocation' =
           LET inv == [invocation EXCEPT !.method = method, !.body = body] IN
           IF method # "POST" THEN Respond(inv, 405, "Method Not Allowed")
           ELSE IF \/ Falsy(body.host) \/ Falsy(body.account)
                   \/ Falsy(body.password) \/ Falsy(body.albumId)
           THEN Respond(inv, 400, "Missing required parameters")
           ELSE Fetch(inv, "login", "login")
    /\ UNCHANGED application

\* synology.ts:55-66: the login settles
LoginSettles(outcome) ==
    /\ invocation.pc = "login"
    /\ invocation' =
           LET inv == Settle(invocation, outcome.kind) IN
           IF outcome.kind = "ok"
           THEN Fetch([inv EXCEPT !.sid = outcome.sid], "list", "list")
           ELSE Catch(inv, "login failed")
    /\ UNCHANGED application

\* synology.ts:66-75: the listing settles
ListSettles(outcome) ==
    /\ invocation.pc = "list"
    /\ invocation' =
           LET inv == Settle(invocation, outcome.kind) IN
           IF outcome.kind = "ok"
           THEN Fetch([inv EXCEPT !.list = outcome.list], "logout", "logout")
           ELSE Catch(inv, "listing failed")
    /\ UNCHANGED application

\* synology.ts:75-77: the logout of the try block settles; the list is sent, or
\* the rejection is caught
LogoutSettles(result) ==
    /\ invocation.pc = "logout"
    /\ invocation' =
           LET inv == Settle(invocation, result) IN
           IF result = "ok"
           THEN Respond(inv, 200, inv.list)
           ELSE Catch(inv, "fetch failed")
    /\ UNCHANGED application

\* synology.ts:85-88: the logout of the catch block settles; its rejection
\* leaves the handler before res.status(500)
CatchLogoutSettles(result) ==
    /\ invocation.pc = "catch logout"
    /\ invocation' =
           LET inv == Settle(invocation, result) IN
           IF result = "ok"
           THEN Respond(inv, 500, inv.error)
           ELSE [inv EXCEPT !.pc = "rejected"]
    /\ UNCHANGED application

\* the application after construction and the handler before a request
InitSynology ==
    /\ cropFactors = defaultCropFactors
    /\ localPhotos = <<>>
    /\ equivalents = <<>>
    /\ focalLengthRanges = DefaultRanges
    /\ parsedRanges = NotParsed
    /\ InitialSettings
    /\ InitialChart
    /\ Settled
    /\ invocation = NoInvocation

NextSynology ==
    \/ \E method \in Methods, body \in Bodies : handler(method, body)
    \/ \E outcome \in LoginOutcomes : LoginSettles(outcome)
    \/ \E outcome \in ListOutcomes : ListSettles(outcome)
    \/ \E result \in {"ok", "rejects"} : LogoutSettles(result)
    \/ \E result \in {"ok", "rejects"} : CatchLogoutSettles(result)

SpecSynology == InitSynology /\ [][NextSynology]_vars

-----------------------------------------------------------------------------
(* Properties of the events *)

\* C21: a run of chart generation on values that a run has already charted
\* leaves the same labels and the same counts, and changes neither the photos,
\* the crop-factor table, the filter selections, the mode, the grouping nor
\* the range text.
C21_RegenerationIdempotent ==
    [][handleGenerateChart =>
          /\ chartData'.kind = chartData.kind
          /\ chartData'.labels = chartData.labels
          /\ chartData'.data = chartData.data
          /\ UNCHANGED <<localPhotos, cropFactors, settings, focalLengthRanges>>]_vars

\* a chart is shown of some of the photos only: a folder, a model or a lens
\* is deselected
C21_Witness ==
    /\ chartData.kind = "chart"
    /\ FilteredPhotos # <<>>
    /\ Len(FilteredPhotos) < Len(localPhotos)

\* the sum of the counts of a chart
RECURSIVE SumOfData(_)
SumOfData(data) ==
    IF data = <<>> THEN 0 ELSE Head(data) + SumOfData(Tail(data))

\* the loaded photos without a lens model whose folder and camera model are
\* selected
SelectedLensless ==
    {k \in DOMAIN localPhotos :
        /\ localPhotos[k].exif.LensModel \in {NoString, ""}
        /\ localPhotos[k].folderPath \in selectedFolderPaths
        /\ ModelOrEmpty(localPhotos[k]) \in selectedModels}

\* C24: every photo without a lens model whose folder and camera model are
\* selected is counted in the chart, whatever lenses are selected: the chart
\* is a chart whose counts cover these photos.
C24_LenslessNeverExcluded ==
    SelectedLensless # {} =>
        /\ chartData.kind = "chart"
        /\ SumOfData(chartData.data) >= Cardinality(SelectedLensless)

\* the same with some lens selected
C24_LenslessKeptBySelectedLenses ==
    (SelectedLensless # {} /\ selectedLenses # {}) =>
        /\ chartData.kind = "chart"
        /\ SumOfData(chartData.data) >= Cardinality(SelectedLensless)

\* C25: no two entries of the photo list have the same id.
C25_UniqueIds ==
    \A i, j \in DOMAIN localPhotos : localPhotos[i].id = localPhotos[j].id => i = j

\* C25 (second part): a folder selection keeps the photos that were in the
\* list, at their places.
C25_PrefixKept ==
    [][/\ Len(localPhotos') >= Len(localPhotos)
       /\ SubSeq(localPhotos', 1, Len(localPhotos)) = localPhotos]_vars

\* C25 (both parts)
C25_UniqueIdsAndPrefixKept ==
    [][/\ \A i, j \in DOMAIN localPhotos' : localPhotos'[i].id = localPhotos'[j].id => i = j
       /\ Len(localPhotos') >= Len(localPhotos)
       /\ SubSeq(localPhotos', 1, Len(localPhotos)) = localPhotos]_vars

\* the folder paths that a selection of newPhotos gives a photo that was not
\* loaded before
PathsWithNewPhotos(newPhotos) ==
    {path \in {newPhotos[i].folderPath : i \in DOMAIN newPhotos} :
        \E i \in DOMAIN newPhotos :
            /\ newPhotos[i].folderPath = path
            /\ \A k \in DOMAIN localPhotos : localPhotos[k].id # newPhotos[i].id}

\* a completed scan selects exactly the folder paths that received a new
\* photo and leaves every other path selected or deselected as it was
C26_ScanSelectsNewPaths ==
    [][\A newPhotos \in Scans :
          handleLocalFolderSelect(newPhotos) =>
              selectedFolderPaths' = selectedFolderPaths \cup PathsWithNewPhotos(newPhotos)]_vars

\* the selected folder paths are known folder paths
C26_SelectedAreKnown == selectedFolderPaths \subseteq allFolderPaths

\* C26: a completed scan adds to the selected folders exactly the paths that
\* received a new photo and leaves every other path as it was, and in every
\* state the selected folder paths are known folder paths.
C26_FolderSelectionAcrossScans ==
    []C26_SelectedAreKnown /\ C26_ScanSelectsNewPaths

\* a folder was deselected, and a later selection brought new photos to
\* another folder only
C26_Witness ==
    /\ "Trip" \in allFolderPaths \ selectedFolderPaths
    /\ "Trip/Day2" \in selectedFolderPaths

\* the chart that handleGenerateChart computes from the values of the next
\* state with every available model and lens selected
ChartOfFullSelections(in) == GeneratedChart(in, FilteredOf(in))

\* C27: when a folder selection completes, the selected models become all
\* available models and the selected lenses all available lenses, whatever
\* was deselected before and whether or not a photo was added, and with photos
\* loaded the chart then displayed is the one computed with these selections.
C27_SelectionsReset ==
    [][\A newPhotos \in Scans :
          handleLocalFolderSelect(newPhotos) =>
              /\ selectedModels' = availableModels'
              /\ selectedLenses' = availableLenses'
              /\ localPhotos' # <<>> =>
                     \E in \in {[localPhotos |-> localPhotos', cropFactors |-> cropFactors',
                                 focalLengthRanges |-> focalLengthRanges',
                                 groupBy |-> groupBy', focalLengthMode |-> focalLengthMode',
                                 selectedModels |-> availableModels',
                                 selectedLenses |-> availableLenses',
                                 selectedFolderPaths |-> selectedFolderPaths']} :
                         chartData' = ChartOfFullSelections(in)]_vars

\* photos of two cameras are loaded, and every model and lens is selected and
\* charted
C27_Witness ==
    /\ Cardinality(availableModels) = 2
    /\ selectedModels = availableModels
    /\ selectedLenses = availableLenses
    /\ selectedLenses # {}
    /\ chartData.kind = "chart"

\* C23: in range mode the counts of the chart never add up to more than the
\* number of filtered photos with a numeric equivalent focal length, and to
\* exactly that number when the text names other.
C23_CountsConservative ==
    RangeChartShown =>
        /\ SumOfData(chartData.data) <= Len(NumericEquivalents)
        /\ HasOtherRule => SumOfData(chartData.data) = Len(NumericEquivalents)

\* the table without an entry for a model
WithoutEntry(factors, model) == [m \in DOMAIN factors \ {model} |-> factors[m]]

\* C28: a photo without a usable 35mm-equivalent value whose model has the
\* crop factor 1.0 (typed, or stored for an invalid edit) resolves to the focal
\* length it resolves to when its model has no entry in the table.
C28_UnitFactorIsNoCorrection ==
    \A i \in DOMAIN equivalents :
        LET p == localPhotos[i] IN
        (~Has35mm(p) /\ Lookup(cropFactors, p.exif.Model) = Int2Num(1)) =>
            equivalents[i] =
                getEquivalentFocalLength(p, WithoutEntry(cropFactors, p.exif.Model))

\* the same for the focal lengths that are whole numbers of millimetres, NaN
\* or absent
C28_UnitFactorKeepsWholeMillimetres ==
    \A i \in DOMAIN equivalents :
        LET p == localPhotos[i] IN
        (/\ ~Has35mm(p)
         /\ Lookup(cropFactors, p.exif.Model) = Int2Num(1)
         /\ p.exif.FocalLength.e = 0) =>
            equivalents[i] =
                getEquivalentFocalLength(p, WithoutEntry(cropFactors, p.exif.Model))

\* C22: with photos loaded, range mode active and no debounce timer pending,
\* the chart displayed is the one computed from the text in the input box.
C22_NoStaleChart ==
    (/\ localPhotos # <<>>
     /\ groupBy = "FocalLength"
     /\ focalLengthMode = "range"
     /\ ~timerPending) =>
        chartData = GeneratedChart(Inputs, FilteredPhotos)

-----------------------------------------------------------------------------
(* Properties of the Synology handler *)

\* the login returned a session id
LoginReturnedSid ==
    \E i \in DOMAIN invocation.fetches :
        invocation.fetches[i].api = "login" /\ invocation.fetches[i].result = "ok"

\* the logout requests issued
Logouts == {i \in DOMAIN invocation.fetches : invocation.fetches[i].api = "logout"}

\* C29: once the login has returned a session id, the handler sends no
\* response before it has issued a logout request for that session, whether
\* the listing succeeds or fails; when the login fails no logout is issued.
C29_LogoutBeforeResponse ==
    /\ (LoginReturnedSid /\ invocation.responses # <<>>) =>
           \E i \in Logouts : invocation.fetches[i].sid = invocation.sid /\ invocation.sid \in Sids
    /\ ~LoginReturnedSid => Logouts = {}

\* the listing failed after a login that returned a session id, and the
\* handler has answered
C29_Witness ==
    /\ LoginReturnedSid
    /\ \E i \in DOMAIN invocation.fetches :
           invocation.fetches[i].api = "list" /\ invocation.fetches[i].result = "failure"
    /\ invocation.responses # <<>>

\* the handler has returned or has been left by an exception
Ended == invocation.pc \in {"done", "rejected"}

\* some awaited call of the kind failed
Failed(api) ==
    \E i \in DOMAIN invocation.fetches :
        invocation.fetches[i].api = api /\ invocation.fetches[i].result \notin {"ok", "pending"}

\* the status the handler owes to a request
StatusOwed ==
    IF invocation.method # "POST" THEN 405
    ELSE IF \E f \in DOMAIN invocation.body : Falsy(invocation.body[f]) THEN 400
    ELSE IF Failed("login") \/ Failed("list") \/ Failed("logout") THEN 500
    ELSE 200

\* C30: a request never has more than one response, and when the handler has
\* ended it has exactly one: 405 or 400 without any call to the NAS, 200 with
\* the item list, or 500 with a message after a failed call.
C30_ExactlyOneResponse ==
    /\ Len(invocation.responses) <= 1
    /\ Ended =>
           /\ Len(invocation.responses) = 1
           /\ invocation.responses[1].status = StatusOwed
           /\ StatusOwed \in {400, 405} => invocation.fetches = <<>>
           /\ StatusOwed = 200 => invocation.responses[1].body \in Lists

\* the same for the requests whose logout in the catch block does not reject
C30_OneResponseUnlessCatchLogoutRejects ==
    /\ Len(invocation.responses) <= 1
    /\ (Ended /\ invocation.pc # "rejected") =>
           /\ Len(invocation.responses) = 1
           /\ invocation.responses[1].status = StatusOwed
           /\ StatusOwed \in {400, 405} => invocation.fetches = <<>>
           /\ StatusOwed = 200 => invocation.responses[1].body \in Lists

=============================================================================
